---- MODULE Spec2Model ----
(***************************************************************************)
(* MLDataPreparer: the session controller (DataController) with its undo / *)
(* redo history, over the table functions of core/processor.py,            *)
(* core/loader.py and core/validator.py.                                   *)
(*                                                                         *)
(* A pandas DataFrame is an object on a heap: the controller's df and the  *)
(* entries of its two stacks are references, so that an in-place write     *)
(* (df[name] = ...) is seen through every reference to the same object.    *)
(***************************************************************************)
EXTENDS Integers, Sequences, FiniteSets, TLC

VARIABLES df, heap, _undo_stack, _redo_stack, path, last, law, files

vars == <<df, heap, _undo_stack, _redo_stack, path, last, law, files>>

(***************************************************************************)
(* Bounds                                                                  *)
(***************************************************************************)
\* the most snapshots the two stacks hold together
MaxHist == 2

\* heap cells: the stacks' snapshots, the live table, one copy being made
\* and one result being built
MaxObj == MaxHist + 3

ObjIds == 1..MaxObj

(***************************************************************************)
(* Cell values: a number p/q (q > 0, reduced), a string (its characters),  *)
(* the missing-marker NaN, a timestamp (day number since 1970-01-01 and    *)
(* the nanoseconds within the day) and the missing timestamp NaT.          *)
(***************************************************************************)
NaN == [nan |-> TRUE]

NaT == [nat |-> TRUE]

Abs(x) == IF x < 0 THEN -x ELSE x

RECURSIVE Gcd(_, _)
Gcd(a, b) == IF b = 0 THEN a ELSE Gcd(b, a % b)

Num(p, q) == LET g == Gcd(Abs(p), q) IN [n |-> p \div g, d |-> q \div g]

Whole(i) == [n |-> i, d |-> 1]

Str(cs) == [s |-> cs]

Ts(day, ns) == [day |-> day, ns |-> ns]

IsNum(v) == "n" \in DOMAIN v

IsNaN(v) == "nan" \in DOMAIN v

IsStr(v) == "s" \in DOMAIN v

IsTs(v) == "day" \in DOMAIN v

IsNaT(v) == "nat" \in DOMAIN v

\* pandas isna()
IsMissing(v) == IsNaN(v) \/ IsNaT(v)

(***************************************************************************)
(* Sequences                                                               *)
(***************************************************************************)
Range(s) == {s[i] : i \in 1..Len(s)}

Take(s, k) == IF k <= 0 THEN <<>> ELSE SubSeq(s, 1, IF k < Len(s) THEN k ELSE Len(s))

Repeat(v, k) == [i \in 1..k |-> v]

\* the entries of s at the positions keep, in order
RECURSIVE Select(_, _)
Select(s, keep) ==
    IF s = <<>> THEN <<>>
    ELSE LET rest == Select(Tail(s), {i - 1 : i \in keep \ {1}})
         IN  IF 1 \in keep THEN <<Head(s)>> \o rest ELSE rest

\* [x for x in s if x in set]
RECURSIVE FilterSeq(_, _)
FilterSeq(s, set) ==
    IF s = <<>> THEN <<>>
    ELSE IF Head(s) \in set THEN <<Head(s)>> \o FilterSeq(Tail(s), set)
         ELSE FilterSeq(Tail(s), set)

(***************************************************************************)
(* Tables (pandas DataFrame): the column names in order, the row labels    *)
(* (the index) and, per column, its dtype and its values.                  *)
(***************************************************************************)
Column(dtype, vals) == [dtype |-> dtype, vals |-> vals]

Table(cols, index, data) == [cols |-> cols, index |-> index, data |-> data]

\* len(df)
NRows(t) == Len(t.index)

\* name in df.columns
HasCol(t, c) == c \in Range(t.cols)

\* df.empty: no rows or no columns
IsEmpty(t) == Len(t.index) = 0 \/ Len(t.cols) = 0

\* range(k): a fresh RangeIndex
RangeIndex(k) == [i \in 1..k |-> i - 1]

\* df[c] = col, a column of len(df) values: replaces c or appends it
SetCol(t, c, col) ==
    Table(IF HasCol(t, c) THEN t.cols ELSE Append(t.cols, c),
          t.index,
          [x \in Range(t.cols) \cup {c} |-> IF x = c THEN col ELSE t.data[x]])

\* the rows at the positions keep, labels kept
SelectRows(t, keep) ==
    Table(t.cols, Select(t.index, keep),
          [c \in Range(t.cols) |->
              Column(t.data[c].dtype, Select(t.data[c].vals, keep))])

\* the dtype pandas infers for a list of values
InferDtype(vals) ==
    IF vals = <<>> THEN "object"
    ELSE IF \E i \in 1..Len(vals) : IsStr(vals[i]) THEN "object"
    ELSE IF \A i \in 1..Len(vals) : IsTs(vals[i]) \/ IsNaT(vals[i])
         THEN "datetime64[ns]"
    ELSE IF \A i \in 1..Len(vals) : IsNum(vals[i]) /\ vals[i].d = 1 THEN "int64"
    ELSE IF \A i \in 1..Len(vals) : IsNum(vals[i]) \/ IsNaN(vals[i]) THEN "float64"
    ELSE "object"

(***************************************************************************)
(* The heap.  None is the absent reference; a free cell holds Free.        *)
(***************************************************************************)
None == 0

Free == [free |-> TRUE]

NoPath == ""

\* no value returned
NoVal == <<>>

Alloc(h) == CHOOSE i \in ObjIds : h[i] = Free /\ \A j \in ObjIds : h[j] = Free => i <= j

\* what a call hands back: the exception raised ("ok" for none) with its
\* detail, the reference returned, and the heap after the call
Ok(h, r) == [exc |-> "ok", detail |-> <<>>, ret |-> r, heap |-> h]

Raise(h, e, d) == [exc |-> e, detail |-> d, ret |-> None, heap |-> h]

\* a new DataFrame object holding t
New(h, t) == LET i == Alloc(h) IN Ok([h EXCEPT ![i] = t], i)

\* the object at r written in place, and r handed back
InPlace(h, r, t) == Ok([h EXCEPT ![r] = t], r)

\* df.copy(deep=True)
DeepCopy(h, r) == New(h, h[r])

(***************************************************************************)
(* Arithmetic on cell values.  NaN propagates.                             *)
(***************************************************************************)
NumAdd(x, y) ==
    IF IsNaN(x) \/ IsNaN(y) THEN NaN ELSE Num(x.n * y.d + y.n * x.d, x.d * y.d)

NumSub(x, y) ==
    IF IsNaN(x) \/ IsNaN(y) THEN NaN ELSE Num(x.n * y.d - y.n * x.d, x.d * y.d)

NumMul(x, y) ==
    IF IsNaN(x) \/ IsNaN(y) THEN NaN ELSE Num(x.n * y.n, x.d * y.d)

NumHalf(x) == IF IsNaN(x) THEN NaN ELSE Num(x.n, x.d * 2)

NumDivInt(x, k) == IF IsNaN(x) THEN NaN ELSE Num(x.n, x.d * k)

NumLess(x, y) == x.n * y.d < y.n * x.d

IsNumeric(col) == col.dtype \in {"int64", "float64"}

\* the dtype of x (+|-|*) y for two numeric columns
ArithDtype(x, y) ==
    IF x.dtype = "int64" /\ y.dtype = "int64" THEN "int64" ELSE "float64"

\* Series (+|-|*) Series over the same index: [exc, col]
SeriesArith(op, x, y) ==
    IF IsNumeric(x) /\ IsNumeric(y)
    THEN [exc |-> "ok",
          col |-> Column(ArithDtype(x, y),
                         [i \in 1..Len(x.vals) |->
                             CASE op = "+" -> NumAdd(x.vals[i], y.vals[i])
                               [] op = "-" -> NumSub(x.vals[i], y.vals[i])
                               [] OTHER    -> NumMul(x.vals[i], y.vals[i])])]
    ELSE IF /\ op = "+" /\ x.dtype = "object" /\ y.dtype = "object"
            /\ \A i \in 1..Len(x.vals) : IsStr(x.vals[i]) /\ IsStr(y.vals[i])
    THEN [exc |-> "ok",
          col |-> Column("object",
                         [i \in 1..Len(x.vals) |-> Str(x.vals[i].s \o y.vals[i].s)])]
    ELSE [exc |-> "TypeError", col |-> Column("object", <<>>)]

\* Series / 2
SeriesHalf(x) ==
    IF IsNumeric(x)
    THEN [exc |-> "ok",
          col |-> Column("float64", [i \in 1..Len(x.vals) |-> NumHalf(x.vals[i])])]
    ELSE [exc |-> "TypeError", col |-> Column("object", <<>>)]

(***************************************************************************)
(* core/processor.py: column operations                                    *)
(***************************************************************************)
\* df.drop(columns=columns)
DropCols(t, columns) ==
    LET left == FilterSeq(t.cols, Range(t.cols) \ Range(columns))
    IN  Table(left, t.index, [c \in Range(left) |-> t.data[c]])

\* drop_columns naming only the first absent column in its KeyError
DropColumnsFirstAbsent(h, d, columns) ==
    IF d = None THEN Raise(h, "AttributeError", <<>>)
    ELSE LET t == h[d]
             missing == FilterSeq(columns, Range(columns) \ Range(t.cols))
         IN  IF missing # <<>> THEN Raise(h, "KeyError", <<missing[1]>>)
             ELSE New(h, DropCols(t, columns))

\* drop_columns taking None for a table without columns
DropColumnsOfNone(h, d, columns) ==
    IF d = None THEN New(h, Table(<<>>, <<>>, [c \in {} |-> Column("object", <<>>)]))
    ELSE LET t == h[d]
             missing == FilterSeq(columns, Range(columns) \ Range(t.cols))
         IN  IF missing # <<>> THEN Raise(h, "KeyError", missing)
             ELSE New(h, DropCols(t, columns))

drop_columns(h, d, columns) ==
    IF d = None THEN Raise(h, "AttributeError", <<>>)
    ELSE LET t == h[d]
             missing == FilterSeq(columns, Range(columns) \ Range(t.cols))
         IN  IF missing # <<>> THEN Raise(h, "KeyError", missing)
             ELSE New(h, DropCols(t, columns))

\* add_column assigning a shorter list as it is
AddColumnUnpadded(h, d, name, values) ==
    IF d = None THEN Raise(h, "TypeError", <<>>)
    ELSE IF Len(values) = NRows(h[d]) THEN Ok(h, None)
    ELSE InPlace(h, d, SetCol(h[d], name, Column(InferDtype(values), values)))

\* the equal-length case reaches the end of the function: Python returns None
add_column(h, d, name, values) ==
    IF d = None THEN Raise(h, "TypeError", <<>>)
    ELSE LET t == h[d]
             n == NRows(t)
             padded == values \o Repeat(NaN, n - Len(values))
         IN  IF Len(values) = 0
             THEN InPlace(h, d, SetCol(t, name, Column("float64", Repeat(NaN, n))))
             ELSE IF Len(values) < n
             THEN InPlace(h, d, SetCol(t, name, Column(InferDtype(padded), padded)))
             ELSE IF Len(values) > n
             THEN InPlace(h, d, SetCol(t, name,
                                       Column(InferDtype(Take(values, n)), Take(values, n))))
             ELSE Ok(h, None)

\* lambda df: df["a"] + df["b"], the function the tests derive a column with
DerivedSeries(t, func) ==
    IF ~HasCol(t, "a") \/ ~HasCol(t, "b")
    THEN [exc |-> "KeyError", col |-> Column("object", <<>>)]
    ELSE SeriesArith("+", t.data["a"], t.data["b"])

create_column_from_existing(h, d, new_name, func) ==
    IF d = None THEN Raise(h, "TypeError", <<>>)
    ELSE LET r == DerivedSeries(h[d], func)
         IN  IF r.exc # "ok" THEN Raise(h, r.exc, <<>>)
             ELSE InPlace(h, d, SetCol(h[d], new_name, r.col))

\* lambda x: x * 10, the function the tests transform a column with
TransformCell(func, v) ==
    IF IsNaN(v) THEN NaN
    ELSE IF IsStr(v) THEN Str([i \in 1..(10 * Len(v.s)) |-> v.s[((i - 1) % Len(v.s)) + 1]])
    ELSE NumMul(v, Whole(10))

apply_transformation(h, d, column, func) ==
    IF d = None THEN Raise(h, "AttributeError", <<>>)
    ELSE LET t == h[d]
         IN  IF ~HasCol(t, column) THEN Raise(h, "KeyError", <<column>>)
             ELSE IF \E i \in 1..NRows(t) : IsTs(t.data[column].vals[i])
             THEN Raise(h, "TypeError", <<>>)
             ELSE InPlace(h, d,
                     SetCol(t, column,
                            Column(t.data[column].dtype,
                                   [i \in 1..NRows(t) |->
                                       TransformCell(func, t.data[column].vals[i])])))

(***************************************************************************)
(* str() of a cell                                                         *)
(***************************************************************************)
DigitChars == <<"0", "1", "2", "3", "4", "5", "6", "7", "8", "9">>

RECURSIVE Digits(_)
Digits(k) ==
    IF k < 10 THEN <<DigitChars[k + 1]>>
    ELSE Digits(k \div 10) \o <<DigitChars[(k % 10) + 1]>>

IntStr(i) == IF i < 0 THEN <<"-">> \o Digits(-i) ELSE Digits(i)

TwoDigits(k) == IF k < 10 THEN <<"0">> \o Digits(k) ELSE Digits(k)

\* repr of a float: whole numbers, halves and quarters are written out,
\* any other fraction stands as "?"
FloatStr(v) ==
    IF IsNaN(v) THEN <<"n", "a", "n">>
    ELSE LET sign == IF v.n < 0 THEN <<"-">> ELSE <<>>
             whole == Digits(Abs(v.n) \div v.d)
             part == Abs(v.n) % v.d
         IN  CASE v.d = 1 -> sign \o whole \o <<".", "0">>
               [] v.d = 2 -> sign \o whole \o <<".", "5">>
               [] v.d = 4 -> sign \o whole
                                  \o (IF part = 1 THEN <<".", "2", "5">>
                                      ELSE <<".", "7", "5">>)
               [] OTHER   -> <<"?">>

\* the dates of December 1969 and January 1970; any other stands as "?"
DateStr(day) ==
    IF day >= 0 /\ day < 31
    THEN <<"1", "9", "7", "0", "-", "0", "1", "-">> \o TwoDigits(day + 1)
    ELSE IF day < 0 /\ day >= -31
    THEN <<"1", "9", "6", "9", "-", "1", "2", "-">> \o TwoDigits(32 + day)
    ELSE <<"?">>

Midnight == <<" ", "0", "0", ":", "0", "0", ":", "0", "0">>

\* str(v) of a cell of a column of the given dtype
CellStr(dtype, v) ==
    CASE IsStr(v) -> v.s
      [] IsNaN(v) -> <<"n", "a", "n">>
      [] IsNaT(v) -> <<"N", "a", "T">>
      [] IsTs(v)  -> IF v.ns = 0 THEN DateStr(v.day) \o Midnight ELSE <<"?">>
      [] IsNum(v) -> IF dtype = "int64" THEN IntStr(v.n) ELSE FloatStr(v)
      [] OTHER    -> <<"?">>

\* Series.astype(str): as str(), but a datetime column whose times are all
\* midnight shows the dates alone
AsTypeStr(col, v) ==
    IF IsTs(v) /\ \A i \in 1..Len(col.vals) : IsTs(col.vals[i]) => col.vals[i].ns = 0
    THEN DateStr(v.day)
    ELSE CellStr(col.dtype, v)

\* the dtype of a row handed to a predicate by df.apply(axis=1): the common
\* dtype of the columns
RowDtype(t) ==
    IF \A c \in Range(t.cols) : t.data[c].dtype = "int64" THEN "int64"
    ELSE IF \A c \in Range(t.cols) : IsNumeric(t.data[c]) THEN "float64"
    ELSE "object"

\* str(row[column]) for the row at position i
RowStr(t, column, i) ==
    CellStr(IF RowDtype(t) = "object" THEN t.data[column].dtype ELSE RowDtype(t),
            t.data[column].vals[i])

(***************************************************************************)
(* core/processor.py: row operations                                       *)
(***************************************************************************)
\* df.drop(index=indexes)
drop_rows_by_index(h, d, indexes) ==
    IF d = None THEN Raise(h, "AttributeError", <<>>)
    ELSE LET t == h[d]
             missing == FilterSeq(indexes, Range(indexes) \ Range(t.index))
         IN  IF missing # <<>> THEN Raise(h, "KeyError", missing)
             ELSE New(h, SelectRows(t, {i \in 1..NRows(t) : t.index[i] \notin Range(indexes)}))

\* The predicates the controller builds: lambda row: str(row[column]) == value.
\* mask = df.apply(condition, axis=1): the positions where it is true, or the
\* KeyError of row[column]
Mask(t, condition) ==
    IF ~HasCol(t, condition.column) THEN [exc |-> "KeyError", rows |-> {}]
    ELSE [exc |-> "ok",
          rows |-> {i \in 1..NRows(t) : RowStr(t, condition.column, i) = condition.value}]

\* On a table with no rows or no columns df.apply calls the predicate on no
\* row and hands back no boolean mask.  With no columns it hands back a copy
\* of the table, and ~mask and df[mask] leave every row.  With columns and no
\* rows what it hands back depends on the pandas at hand and on the columns'
\* dtypes: ~mask raises TypeError or not, and df[mask] keeps the columns or
\* selects none of them.
DropEmptyOutcomes(h, d) ==
    IF h[d].cols = <<>> THEN {New(h, h[d])}
    ELSE {Raise(h, "TypeError", <<>>), New(h, h[d])}

FilterEmptyOutcomes(h, d) ==
    IF h[d].cols = <<>> THEN {New(h, h[d])}
    ELSE {New(h, h[d]), New(h, DropCols(h[d], h[d].cols))}

\* the outcomes of drop_rows_by_condition(df, condition)
drop_rows_by_condition(h, d, condition) ==
    IF d = None THEN {Raise(h, "AttributeError", <<>>)}
    ELSE IF IsEmpty(h[d]) THEN DropEmptyOutcomes(h, d)
    ELSE LET t == h[d]
             mask == Mask(t, condition)
         IN  IF mask.exc # "ok" THEN {Raise(h, mask.exc, <<condition.column>>)}
             ELSE {New(h, SelectRows(t, (1..NRows(t)) \ mask.rows))}

\* the outcomes of filter_rows(df, condition)
filter_rows(h, d, condition) ==
    IF d = None THEN {Raise(h, "AttributeError", <<>>)}
    ELSE IF IsEmpty(h[d]) THEN FilterEmptyOutcomes(h, d)
    ELSE LET t == h[d]
             mask == Mask(t, condition)
         IN  IF mask.exc # "ok" THEN {Raise(h, mask.exc, <<condition.column>>)}
             ELSE {New(h, SelectRows(t, mask.rows))}

\* df.dropna(axis=1, how="all")
drop_empty_columns(h, d) ==
    IF d = None THEN Raise(h, "AttributeError", <<>>)
    ELSE LET t == h[d]
             allNa == {c \in Range(t.cols) :
                          \A i \in 1..NRows(t) : IsMissing(t.data[c].vals[i])}
         IN  New(h, DropCols(t, FilterSeq(t.cols, allNa)))

(***************************************************************************)
(* core/processor.py: math                                                 *)
(***************************************************************************)
\* math_operation with "mean" written as df[col1] + df[col2] / 2
MathMeanUnbracketed(h, d, col1, col2, op, new_name) ==
    IF d = None THEN Raise(h, "AttributeError", <<>>)
    ELSE LET t == h[d]
             x == t.data[col1]
             y == t.data[col2]
             half == SeriesHalf(y)
             r == CASE op = "sum"  -> SeriesArith("+", x, y)
                    [] op = "diff" -> SeriesArith("-", x, y)
                    [] op = "prod" -> SeriesArith("*", x, y)
                    [] OTHER       -> IF half.exc = "ok" THEN SeriesArith("+", x, half.col)
                                      ELSE half
         IN  IF ~HasCol(t, col1) \/ ~HasCol(t, col2) THEN Raise(h, "KeyError", <<>>)
             ELSE IF op \notin {"sum", "diff", "prod", "mean"}
             THEN Raise(h, "ValueError", <<>>)
             ELSE IF r.exc # "ok" THEN Raise(h, r.exc, <<>>)
             ELSE InPlace(h, d, SetCol(t, new_name, r.col))

math_operation(h, d, col1, col2, op, new_name) ==
    IF d = None THEN Raise(h, "AttributeError", <<>>)
    ELSE LET t == h[d]
             x == t.data[col1]
             y == t.data[col2]
             sum == SeriesArith("+", x, y)
             r == CASE op = "sum"  -> sum
                    [] op = "diff" -> SeriesArith("-", x, y)
                    [] op = "prod" -> SeriesArith("*", x, y)
                    [] OTHER       -> IF sum.exc = "ok" THEN SeriesHalf(sum.col) ELSE sum
         IN  IF ~HasCol(t, col1) \/ ~HasCol(t, col2) THEN Raise(h, "KeyError", <<>>)
             ELSE IF op \notin {"sum", "diff", "prod", "mean"}
             THEN Raise(h, "ValueError", <<>>)
             ELSE IF r.exc # "ok" THEN Raise(h, r.exc, <<>>)
             ELSE InPlace(h, d, SetCol(t, new_name, r.col))

(***************************************************************************)
(* core/processor.py: grouping and aggregation.  agg_funcs is a dict in    *)
(* order; an entry names a column and either one function, as the dialogs  *)
(* pass it ({col: "sum"}), or a list of them ({col: ["sum", "max"]}).       *)
(***************************************************************************)
Agg(col, func) == [col |-> col, func |-> func]

AggList(col, funcs) == [col |-> col, funcs |-> funcs]

IsList(a) == "funcs" \in DOMAIN a

\* the (column, function) pairs of agg_funcs, in order
RECURSIVE Pairs(_)
Pairs(aggs) ==
    IF aggs = <<>> THEN <<>>
    ELSE LET a == Head(aggs)
         IN  (IF IsList(a) THEN [i \in 1..Len(a.funcs) |-> Agg(a.col, a.funcs[i])]
              ELSE <<a>>) \o Pairs(Tail(aggs))

\* the label of a pair's output column: the column's name, or with a list
\* among the entries the two-level label (col, func), written col.func here
\* (next to it a key column's label (key, "") is written key)
PairLabel(aggs, p) ==
    IF \E i \in 1..Len(aggs) : IsList(aggs[i]) THEN p.col \o "." \o p.func ELSE p.col

AggLabels(aggs) == [i \in 1..Len(Pairs(aggs)) |-> PairLabel(aggs, Pairs(aggs)[i])]

\* the result t of an aggregation by the columns keys: with a list among
\* the entries its column labels have two levels, (key, "") for a key
\* column and (col, func) for an output column
Headed(t, keys, aggs) ==
    IF \E i \in 1..Len(aggs) : IsList(aggs[i])
    THEN [cols |-> t.cols, index |-> t.index, data |-> t.data,
          levels |-> [i \in 1..Len(keys) |-> <<keys[i], "">>]
                     \o [i \in 1..Len(Pairs(aggs)) |->
                            <<Pairs(aggs)[i].col, Pairs(aggs)[i].func>>]]
    ELSE t

AggNames == {"sum", "mean", "min", "max", "count"}

\* the values of col at the positions rows that are not missing
Present(col, rows) == FilterSeq(Select(col.vals, rows), {v \in Range(col.vals) : ~IsMissing(v)})

\* the order of values: numbers by value, timestamps by time, strings by
\* their characters
CharOrder ==
    <<" ", "-", ".", "0", "1", "2", "3", "4", "5", "6", "7", "8", "9", ":", "?",
      "A", "B", "N", "T", "a", "b", "n">>

CharRank(c) == CHOOSE i \in 1..Len(CharOrder) : CharOrder[i] = c

RECURSIVE CharsLess(_, _)
CharsLess(x, y) ==
    IF y = <<>> THEN FALSE
    ELSE IF x = <<>> THEN TRUE
    ELSE IF Head(x) = Head(y) THEN CharsLess(Tail(x), Tail(y))
    ELSE CharRank(Head(x)) < CharRank(Head(y))

ValLess(x, y) ==
    CASE IsNum(x) /\ IsNum(y) -> NumLess(x, y)
      [] IsTs(x) /\ IsTs(y)   -> x.day < y.day \/ (x.day = y.day /\ x.ns < y.ns)
      [] IsStr(x) /\ IsStr(y) -> CharsLess(x.s, y.s)
      [] OTHER                -> FALSE

MinVal(vs) == CHOOSE v \in Range(vs) : \A w \in Range(vs) : ~ValLess(w, v)

MaxVal(vs) == CHOOSE v \in Range(vs) : \A w \in Range(vs) : ~ValLess(v, w)

\* the sum of numbers; of texts, their concatenation
RECURSIVE SumVals(_)
SumVals(vs) ==
    IF vs = <<>> THEN Whole(0)
    ELSE IF IsStr(Head(vs))
    THEN (IF Len(vs) = 1 THEN Head(vs) ELSE Str(Head(vs).s \o SumVals(Tail(vs)).s))
    ELSE NumAdd(Head(vs), SumVals(Tail(vs)))

\* func over the non-missing values of col at rows: sum of none is 0, count
\* of none is 0, mean / min / max of none is NaN
Aggregate(func, col, rows) ==
    LET vs == Present(col, rows)
    IN  CASE func = "sum"   -> SumVals(vs)
          [] func = "count" -> Whole(Len(vs))
          [] func = "mean"  -> IF vs = <<>> THEN NaN ELSE NumDivInt(SumVals(vs), Len(vs))
          [] func = "min"   -> IF vs = <<>> THEN NaN ELSE MinVal(vs)
          [] OTHER          -> IF vs = <<>> THEN NaN ELSE MaxVal(vs)

AggDtype(func, col, vals) ==
    CASE func = "count" -> "int64"
      [] func = "mean"  -> "float64"
      [] OTHER -> IF \E i \in 1..Len(vals) : IsStr(vals[i]) THEN "object"
                  ELSE IF \E i \in 1..Len(vals) : IsTs(vals[i]) THEN "datetime64[ns]"
                  ELSE IF col.dtype = "int64" /\ \A i \in 1..Len(vals) : ~IsNaN(vals[i])
                  THEN "int64" ELSE "float64"

\* the exception one aggregation ends in on table t ("ok" for none): count
\* takes any column; numbers take every function; texts are concatenated by
\* sum and ordered by min and max but have no mean, and do not mix with
\* numbers; timestamps are ordered by min and max and have no sum (their
\* mean is not computed here and stands as TypeError too)
AggExc(t, a) ==
    LET vs == Present(t.data[a.col], 1..NRows(t))
        texts == \E i \in 1..Len(vs) : IsStr(vs[i])
        times == \E i \in 1..Len(vs) : IsTs(vs[i])
        numbers == \E i \in 1..Len(vs) : IsNum(vs[i])
    IN  IF a.func \notin AggNames THEN "AttributeError"
        ELSE IF a.func = "count" THEN "ok"
        ELSE IF (texts /\ (numbers \/ times)) \/ (times /\ numbers) THEN "TypeError"
        ELSE IF texts /\ a.func = "mean" THEN "TypeError"
        ELSE IF times /\ a.func \in {"sum", "mean"} THEN "TypeError"
        ELSE "ok"

\* a list that names a function twice is refused (SpecificationError);
\* otherwise the first pair of aggs, in order, that raises
FirstAggExc(t, aggs) ==
    LET ps == Pairs(aggs)
    IN  IF \E i \in 1..Len(aggs) :
              IsList(aggs[i]) /\ Cardinality(Range(aggs[i].funcs)) # Len(aggs[i].funcs)
        THEN "SpecificationError"
        ELSE IF \A i \in 1..Len(ps) : AggExc(t, ps[i]) = "ok" THEN "ok"
        ELSE AggExc(t, ps[CHOOSE i \in 1..Len(ps) :
                             /\ AggExc(t, ps[i]) # "ok"
                             /\ \A j \in 1..(i - 1) : AggExc(t, ps[j]) = "ok"])

AggCols(aggs) == [i \in 1..Len(aggs) |-> aggs[i].col]

\* the aggregated columns for the groups (each a set of positions), in order
AggData(t, aggs, groups) ==
    [l \in Range(AggLabels(aggs)) |->
        LET a == Pairs(aggs)[CHOOSE i \in 1..Len(Pairs(aggs)) : AggLabels(aggs)[i] = l]
            vals == [g \in 1..Len(groups) |-> Aggregate(a.func, t.data[a.col], groups[g])]
        IN  Column(AggDtype(a.func, t.data[a.col], vals), vals)]

RECURSIVE KeyLess(_, _)
KeyLess(x, y) ==
    IF x = <<>> THEN FALSE
    ELSE IF Head(x) = Head(y) THEN KeyLess(Tail(x), Tail(y))
    ELSE ValLess(Head(x), Head(y))

RECURSIVE SortKeys(_)
SortKeys(S) ==
    IF S = {} THEN <<>>
    ELSE LET m == CHOOSE k \in S : \A j \in S : ~KeyLess(j, k)
         IN  <<m>> \o SortKeys(S \ {m})

\* the key of the row at position i, and whether groupby keeps the row
\* (dropna=True: a row with a missing key is in no group)
RowKey(t, by, i) == [k \in 1..Len(by) |-> t.data[by[k]].vals[i]]

Keyed(t, by) ==
    {i \in 1..NRows(t) : \A k \in 1..Len(by) : ~IsMissing(t.data[by[k]].vals[i])}

\* df.groupby(by).agg(agg_funcs).reset_index()
GroupAgg(t, by, aggs) ==
    LET keys == SortKeys({RowKey(t, by, i) : i \in Keyed(t, by)})
        groups == [g \in 1..Len(keys) |-> {i \in Keyed(t, by) : RowKey(t, by, i) = keys[g]}]
        agged == AggData(t, aggs, groups)
    IN  Headed(Table(by \o AggLabels(aggs), RangeIndex(Len(keys)),
                     [c \in Range(by) \cup Range(AggLabels(aggs)) |->
                         IF c \in Range(by)
                         THEN Column(t.data[c].dtype,
                                     [g \in 1..Len(keys) |->
                                         keys[g][CHOOSE k \in 1..Len(by) : by[k] = c]])
                         ELSE agged[c]]),
               by, aggs)

group_and_aggregate(h, d, by, agg_funcs) ==
    IF d = None THEN Raise(h, "AttributeError", <<>>)
    ELSE LET t == h[d]
             nokey == FilterSeq(by, Range(by) \ Range(t.cols))
             nocol == FilterSeq(AggCols(agg_funcs), Range(AggCols(agg_funcs)) \ Range(t.cols))
         IN  IF by = <<>> THEN Raise(h, "ValueError", <<>>)
             ELSE IF nokey # <<>> THEN Raise(h, "KeyError", <<nokey[1]>>)
             ELSE IF nocol # <<>> THEN Raise(h, "KeyError", nocol)
             ELSE IF FirstAggExc(t, agg_funcs) # "ok"
             THEN Raise(h, FirstAggExc(t, agg_funcs), <<>>)
             ELSE IF Range(by) \cap Range(AggLabels(agg_funcs)) # {}
             THEN Raise(h, "ValueError", <<>>)
             ELSE New(h, GroupAgg(t, by, agg_funcs))

(***************************************************************************)
(* core/processor.py: text filtering.  astype(str) is that of pandas 1 and  *)
(* 2, where a missing value becomes the text "nan".                        *)
(***************************************************************************)
Contains(s, pattern) ==
    \E i \in 1..(Len(s) - Len(pattern) + 1) : SubSeq(s, i, i + Len(pattern) - 1) = pattern

StartsWith(s, pattern) ==
    Len(pattern) <= Len(s) /\ SubSeq(s, 1, Len(pattern)) = pattern

EndsWith(s, pattern) ==
    Len(pattern) <= Len(s) /\ SubSeq(s, Len(s) - Len(pattern) + 1, Len(s)) = pattern

\* a pattern of letters and digits: as a regular expression it matches itself
TextMatch(mode, s, pattern) ==
    CASE mode = "contains"   -> Contains(s, pattern)
      [] mode = "startswith" -> StartsWith(s, pattern)
      [] OTHER               -> EndsWith(s, pattern)

filter_text(h, d, column, mode, pattern) ==
    IF d = None THEN Raise(h, "AttributeError", <<>>)
    ELSE LET t == h[d]
         IN  IF ~HasCol(t, column) THEN Raise(h, "KeyError", <<column>>)
             ELSE IF mode \notin {"contains", "startswith", "endswith"}
             THEN Raise(h, "ValueError", <<>>)
             ELSE New(h, SelectRows(t,
                        {i \in 1..NRows(t) :
                            TextMatch(mode, AsTypeStr(t.data[column], t.data[column].vals[i]),
                                      pattern)}))

(***************************************************************************)
(* core/processor.py: time series                                          *)
(***************************************************************************)
\* pd.to_datetime of a cell: a number counts nanoseconds from 1970-01-01
\* (here always less than a day of them)
ToDatetime(v) ==
    CASE IsNum(v) -> Ts(0, v.n)
      [] IsNaN(v) -> NaT
      [] OTHER    -> v

\* weeks cut at Monday, as resample("W-MON", ...) would
WeekStartMonday(day) == day - ((day + 3) % 7)

\* 1970-01-01 (day 0) is a Thursday: the Sunday on or before a day
WeekStart(day) == day - ((day + 4) % 7)

Weekly(freq) == freq \in {"W", "w"}

\* the start of the bucket a day falls in
Bucket(freq, day) == IF Weekly(freq) THEN WeekStart(day) ELSE day

BucketDays(freq) == IF Weekly(freq) THEN 7 ELSE 1

\* the frequencies drawn: daily, weekly (in either case), and "X", which is
\* no pandas frequency
Freqs == {"D", "W", "w", "X"}

\* df_copy.resample(...).agg(agg_funcs).reset_index(): one row per bucket from
\* the first to the last one that holds a row, rows with no timestamp left out
Resampled(t, datetime_col, freq, aggs) ==
    LET ts == [i \in 1..NRows(t) |-> ToDatetime(t.data[datetime_col].vals[i])]
        timed == {i \in 1..NRows(t) : IsTs(ts[i])}
        starts == {Bucket(freq, ts[i].day) : i \in timed}
        first == CHOOSE b \in starts : \A c \in starts : b <= c
        final == CHOOSE b \in starts : \A c \in starts : c <= b
        n == IF starts = {} THEN 0 ELSE ((final - first) \div BucketDays(freq)) + 1
        label == [g \in 1..n |-> first + (g - 1) * BucketDays(freq)]
        groups == [g \in 1..n |-> {i \in timed : Bucket(freq, ts[i].day) = label[g]}]
        agged == AggData(t, aggs, groups)
    IN  Headed(Table(<<datetime_col>> \o AggLabels(aggs), RangeIndex(n),
                     [c \in {datetime_col} \cup Range(AggLabels(aggs)) |->
                         IF c = datetime_col
                         THEN Column("datetime64[ns]", [g \in 1..n |-> Ts(label[g], 0)])
                         ELSE agged[c]]),
               <<datetime_col>>, aggs)

resample_time_series(h, d, datetime_col, freq, agg_funcs) ==
    IF d = None THEN Raise(h, "AttributeError", <<>>)
    ELSE LET t == h[d]
             left == DropCols(t, <<datetime_col>>)
             nocol == FilterSeq(AggCols(agg_funcs),
                                Range(AggCols(agg_funcs)) \ Range(left.cols))
         IN  IF ~HasCol(t, datetime_col) THEN Raise(h, "KeyError", <<datetime_col>>)
             ELSE IF \E i \in 1..NRows(t) : IsStr(t.data[datetime_col].vals[i])
             THEN Raise(h, "ValueError", <<>>)
             ELSE IF freq \notin {"D", "W", "w"} THEN Raise(h, "ValueError", <<>>)
             ELSE IF nocol # <<>> THEN Raise(h, "KeyError", nocol)
             ELSE IF FirstAggExc(t, agg_funcs) # "ok"
             THEN Raise(h, FirstAggExc(t, agg_funcs), <<>>)
             ELSE New(h, Resampled(t, datetime_col, freq, agg_funcs))

\* the square root of a variance, kept as its radicand
Sqrt(v) == IF v.n = 0 THEN Whole(0) ELSE [sqrt |-> v]

RECURSIVE SumSquares(_)
SumSquares(vs) ==
    IF vs = <<>> THEN Whole(0) ELSE NumAdd(NumMul(Head(vs), Head(vs)), SumSquares(Tail(vs)))

\* the sample standard deviation (ddof=1) of k values
StdVal(vs) ==
    LET k == Len(vs)
        sum == SumVals(vs)
    IN  IF k < 2 THEN NaN
        ELSE Sqrt(NumDivInt(NumSub(NumMul(Whole(k), SumSquares(vs)), NumMul(sum, sum)),
                            k * (k - 1)))

\* func over the window of rows ending at position i; NaN until the window
\* holds `window` values that are all present (min_periods = window)
RollingVal(col, window, func, i) ==
    LET rows == {j \in 1..Len(col.vals) : i - window < j /\ j <= i}
        vs == Present(col, rows)
    IN  IF i < window \/ Len(vs) < window THEN NaN
        ELSE CASE func = "std" -> StdVal(vs)
               [] OTHER        -> Aggregate(func, col, rows)

\* the Series rolling_stat returns: [exc, detail, col]
rolling_stat(h, d, column, window, func) ==
    IF d = None THEN [exc |-> "AttributeError", detail |-> <<>>, col |-> Column("object", <<>>)]
    ELSE LET t == h[d]
             fail(e) == [exc |-> e, detail |-> <<>>, col |-> Column("object", <<>>)]
         IN  IF ~HasCol(t, column)
             THEN [exc |-> "KeyError", detail |-> <<column>>, col |-> Column("object", <<>>)]
             ELSE IF window < 0 THEN fail("ValueError")
             ELSE IF func \notin {"mean", "sum", "min", "max", "std"} THEN fail("ValueError")
             ELSE IF ~IsNumeric(t.data[column]) THEN fail("DataError")
             ELSE [exc |-> "ok", detail |-> <<>>,
                   col |-> Column("float64",
                                  [i \in 1..NRows(t) |->
                                      RollingVal(t.data[column], window, func, i)])]

(***************************************************************************)
(* core/loader.py.  The files the session can name: two CSV files with     *)
(* rows, one with a header line only, and a path that does not exist.      *)
(***************************************************************************)
Paths == {"data.csv", "other.csv", "empty.csv", "missing.csv"}

\* "a,b\n1,1\n2,\n"
DataCsv ==
    Table(<<"a", "b">>, RangeIndex(2),
          [c \in {"a", "b"} |->
              IF c = "a" THEN Column("int64", <<Whole(1), Whole(2)>>)
              ELSE Column("float64", <<Whole(1), NaN>>)])

\* "a\n5\n"
OtherCsv ==
    Table(<<"a">>, RangeIndex(1), [c \in {"a"} |-> Column("int64", <<Whole(5)>>)])

\* "a,b\n"
EmptyCsv ==
    Table(<<"a", "b">>, <<>>, [c \in {"a", "b"} |-> Column("object", <<>>)])

(***************************************************************************)
(* The file system.  A path holds no file, a text of delimited lines or an *)
(* array saved by numpy.  A line is a sequence of fields and a field a     *)
(* sequence of pieces of text: the characters of a value, or a column's    *)
(* name as one piece.  No value holds the separator, a quote or a line     *)
(* break, so no field is quoted.                                           *)
(***************************************************************************)
FilePaths == Paths \cup {"out", "out.npy", "data.csv.npy"}

NoFile == [kind |-> "none"]

TextFile(sep, lines) == [kind |-> "text", sep |-> sep, lines |-> lines]

NpyFile(array) == [kind |-> "npy", array |-> array]

NameField(name) == IF name = "" THEN <<>> ELSE <<name>>

\* the files on disk when the session starts
InitFiles ==
    [f \in FilePaths |->
        CASE f = "data.csv"  -> TextFile(",", <<<<<<"a">>, <<"b">>>>,
                                                <<<<"1">>, <<"1">>>>,
                                                <<<<"2">>, <<>>>>>>)
          [] f = "other.csv" -> TextFile(",", <<<<<<"a">>>>, <<<<"5">>>>>>)
          [] f = "empty.csv" -> TextFile(",", <<<<<<"a">>, <<"b">>>>>>)
          [] OTHER           -> NoFile]

RECURSIVE Concat(_)
Concat(field) == IF field = <<>> THEN "" ELSE Head(field) \o Concat(Tail(field))

\* the fields of a line read with another separator than it was written
\* with: one field
RECURSIVE Glue(_, _)
Glue(line, sep) ==
    IF line = <<>> THEN <<>>
    ELSE IF Len(line) = 1 THEN Head(line)
    ELSE Head(line) \o <<sep>> \o Glue(Tail(line), sep)

SplitLines(file, sep) ==
    IF file.sep = sep THEN file.lines
    ELSE [i \in 1..Len(file.lines) |-> <<Glue(file.lines[i], file.sep)>>]

\* the texts read_csv takes for a missing value, of those the alphabet spells
NaTexts == {<<>>, <<"n", "a", "n">>, <<"N", "a", "N">>, <<"N", "A">>}

IsDigits(f) == f # <<>> /\ \A i \in 1..Len(f) : f[i] \in Range(DigitChars)

RECURSIVE DigitsVal(_)
DigitsVal(f) ==
    IF f = <<>> THEN 0
    ELSE 10 * DigitsVal(SubSeq(f, 1, Len(f) - 1))
            + (CHOOSE k \in 0..9 : DigitChars[k + 1] = f[Len(f)])

Unsigned(f) == IF f # <<>> /\ Head(f) = "-" THEN Tail(f) ELSE f

IsIntText(f) == IsDigits(Unsigned(f))

\* digits, a point, digits (the form to_csv writes a float in)
IsFloatText(f) ==
    LET u == Unsigned(f)
    IN  \E i \in 1..Len(u) :
           /\ u[i] = "."
           /\ IsDigits(SubSeq(u, 1, i - 1))
           /\ IsDigits(SubSeq(u, i + 1, Len(u)))

RECURSIVE Pow10(_)
Pow10(k) == IF k = 0 THEN 1 ELSE 10 * Pow10(k - 1)

TextNum(f) ==
    LET u == Unsigned(f)
        sign == IF u = f THEN 1 ELSE -1
    IN  IF IsIntText(f) THEN Whole(sign * DigitsVal(u))
        ELSE LET i == CHOOSE k \in 1..Len(u) : u[k] = "."
                 frac == SubSeq(u, i + 1, Len(u))
             IN  Num(sign * (DigitsVal(SubSeq(u, 1, i - 1)) * Pow10(Len(frac))
                                + DigitsVal(frac)),
                     Pow10(Len(frac)))

\* the column read_csv makes of the fields of one column: int64 when every
\* field is a whole number, float64 when every field is a number or
\* missing, else object with the texts as they stand
ParseColumn(fields) ==
    LET na == {i \in 1..Len(fields) : fields[i] \in NaTexts}
        present == (1..Len(fields)) \ na
    IN  IF fields = <<>> THEN Column("object", <<>>)
        ELSE IF \A i \in present : IsIntText(fields[i]) \/ IsFloatText(fields[i])
        THEN Column(IF na = {} /\ \A i \in present : IsIntText(fields[i])
                    THEN "int64" ELSE "float64",
                    [i \in 1..Len(fields) |->
                        IF i \in na THEN NaN ELSE TextNum(fields[i])])
        ELSE Column("object",
                    [i \in 1..Len(fields) |->
                        IF i \in na THEN NaN ELSE Str(fields[i])])

\* the column names read_csv makes of a header line: an empty name becomes
\* "Unnamed: k", a repeated name gets ".1", ".2", ...
HeaderNames(header) ==
    LET named == [i \in 1..Len(header) |->
                     IF header[i] = <<>> THEN "Unnamed: " \o ToString(i - 1)
                     ELSE Concat(header[i])]
    IN  [i \in 1..Len(header) |->
            LET k == Cardinality({j \in 1..(i - 1) : named[j] = named[i]})
            IN  IF k = 0 THEN named[i] ELSE named[i] \o "." \o ToString(k)]

\* pd.read_csv(filepath, sep=sep, header=0) of a text with at least one
\* line: the first line names the columns, a line short of fields is
\* filled with missing values
read_csv(file, sep) ==
    LET lines == SplitLines(file, sep)
        names == HeaderNames(lines[1])
        body == Tail(lines)
    IN  Table(names, RangeIndex(Len(body)),
              [c \in Range(names) |->
                  LET j == CHOOSE k \in 1..Len(names) : names[k] = c
                  IN  ParseColumn([r \in 1..Len(body) |->
                                      IF j <= Len(body[r]) THEN body[r][j]
                                      ELSE <<>>])])

\* the table load makes of the file at filepath as the session starts
ReadCsv(filepath) == read_csv(InitFiles[filepath], ",")

load_csv(h, fs, filepath, sep) ==
    IF fs[filepath].kind = "none" THEN Raise(h, "FileNotFoundError", <<>>)
    ELSE IF fs[filepath].kind = "npy" THEN Raise(h, "UnicodeDecodeError", <<>>)
    ELSE IF fs[filepath].lines = <<>> THEN Raise(h, "EmptyDataError", <<>>)
    ELSE IF IsEmpty(read_csv(fs[filepath], sep)) THEN Raise(h, "ValueError", <<>>)
    ELSE New(h, read_csv(fs[filepath], sep))

(***************************************************************************)
(* core/exporter.py.  A call hands back the exception raised ("ok" for     *)
(* none) and the files it leaves.                                          *)
(***************************************************************************)
Saved(fs) == [exc |-> "ok", detail |-> <<>>, files |-> fs]

Refused(fs, exc, detail) == [exc |-> exc, detail |-> detail, files |-> fs]

\* c in df.columns: of two-level labels, c names a first level
HasLabel(t, c) ==
    IF "levels" \in DOMAIN t THEN \E i \in 1..Len(t.levels) : t.levels[i][1] = c
    ELSE HasCol(t, c)

\* the positions of the columns df[columns] holds, in order
RECURSIVE Picked(_, _)
Picked(t, columns) ==
    IF columns = <<>> THEN <<>>
    ELSE LET here == {i \in 1..Len(t.cols) :
                        IF "levels" \in DOMAIN t THEN t.levels[i][1] = Head(columns)
                        ELSE t.cols[i] = Head(columns)}
         IN  Select([i \in 1..Len(t.cols) |-> i], here) \o Picked(t, Tail(columns))

\* the header lines to_csv writes: one line for each level of the labels
HeaderLines(t, at) ==
    IF "levels" \in DOMAIN t
    THEN <<[j \in 1..Len(at) |-> NameField(t.levels[at[j]][1])],
           [j \in 1..Len(at) |-> NameField(t.levels[at[j]][2])]>>
    ELSE <<[j \in 1..Len(at) |-> NameField(t.cols[at[j]])]>>

\* the text to_csv writes for a cell: nothing for a missing value
CsvField(col, v) == IF IsMissing(v) THEN <<>> ELSE AsTypeStr(col, v)

\* df[columns].to_csv(sep=sep, index=False), the columns at positions at
to_csv(t, at, sep) ==
    TextFile(sep,
             HeaderLines(t, at)
                \o [r \in 1..NRows(t) |->
                       [j \in 1..Len(at) |->
                           CsvField(t.data[t.cols[at[j]]],
                                    t.data[t.cols[at[j]]].vals[r])]])

AllColumns(t) == [i \in 1..Len(t.cols) |-> i]

\* columns = <<>> stands for columns=None (and for an empty list, which
\* the code treats alike)
export_to_csv(h, d, fs, filepath, sep, columns, overwrite) ==
    IF d = None THEN Refused(fs, "AttributeError", <<>>)
    ELSE LET t == h[d]
             missing == FilterSeq(columns, {c \in Range(columns) : ~HasLabel(t, c)})
         IN  IF IsEmpty(t) THEN Refused(fs, "ValueError", <<>>)
             ELSE IF fs[filepath].kind # "none" /\ ~overwrite
             THEN Refused(fs, "FileExistsError", <<filepath>>)
             ELSE IF missing # <<>> THEN Refused(fs, "KeyError", missing)
             ELSE Saved([fs EXCEPT ![filepath] =
                            to_csv(t, IF columns = <<>> THEN AllColumns(t)
                                      ELSE Picked(t, columns), sep)])

\* np.save(file, array) writes to file with ".npy" appended unless the
\* name ends with it already
NpyTarget(filepath) ==
    CASE filepath = "out"      -> "out.npy"
      [] filepath = "data.csv" -> "data.csv.npy"
      [] OTHER                 -> filepath

\* df[columns].to_numpy(): the rows of cells
ToNumpy(t, at) ==
    [r \in 1..NRows(t) |-> [j \in 1..Len(at) |-> t.data[t.cols[at[j]]].vals[r]]]

export_to_numpy(h, d, fs, filepath, columns, overwrite) ==
    IF d = None THEN Refused(fs, "AttributeError", <<>>)
    ELSE LET t == h[d]
             missing == FilterSeq(columns, {c \in Range(columns) : ~HasLabel(t, c)})
         IN  IF IsEmpty(t) THEN Refused(fs, "ValueError", <<>>)
             ELSE IF fs[filepath].kind # "none" /\ ~overwrite
             THEN Refused(fs, "FileExistsError", <<filepath>>)
             ELSE IF missing # <<>> THEN Refused(fs, "KeyError", missing)
             ELSE Saved([fs EXCEPT ![NpyTarget(filepath)] =
                            NpyFile(ToNumpy(t, IF columns = <<>> THEN AllColumns(t)
                                               ELSE Picked(t, columns)))])

(***************************************************************************)
(* core/validator.py.  A call hands back the exception raised ("ok" for    *)
(* none) with its detail, and the value returned.                          *)
(***************************************************************************)
Returns(v) == [exc |-> "ok", detail |-> <<>>, val |-> v]

Throws(e, d) == [exc |-> e, detail |-> d, val |-> NoVal]

\* df[c].isna().sum()
CountMissing(col) == Cardinality({i \in 1..Len(col.vals) : IsMissing(col.vals[i])})

check_missing_values(h, d) ==
    IF d = None THEN Throws("AttributeError", <<>>)
    ELSE Returns([c \in Range(h[d].cols) |-> CountMissing(h[d].data[c])])

\* columns = <<>> is None, and [], which "columns or ..." takes alike
validate_no_missing(h, d, columns) ==
    IF d = None
    THEN Throws(IF columns = <<>> THEN "AttributeError" ELSE "TypeError", <<>>)
    ELSE LET t == h[d]
             cols == IF columns = <<>> THEN t.cols ELSE columns
             absent == FilterSeq(cols, Range(cols) \ Range(t.cols))
             missing == FilterSeq(cols, {c \in Range(cols) : CountMissing(t.data[c]) > 0})
         IN  IF absent # <<>> THEN Throws("KeyError", absent)
             ELSE IF missing # <<>> THEN Throws("ValueError", missing)
             ELSE Returns(TRUE)

\* expected_types is a dict in order: entries [col, type]
Expect(col, type) == [col |-> col, type |-> type]

\* the entries of expected_types whose column has another dtype, in order
Mismatches(t, expected_types) ==
    FilterSeq(expected_types,
              {e \in Range(expected_types) : HasCol(t, e.col) /\ t.data[e.col].dtype # e.type})

\* raise at the first mismatch, carrying it alone
ColumnTypesFirstMismatch(h, d, expected_types) ==
    IF d = None THEN Throws("AttributeError", <<>>)
    ELSE LET t == h[d]
             absent == FilterSeq(expected_types,
                                 {e \in Range(expected_types) : ~HasCol(t, e.col)})
             mismatches == Mismatches(t, expected_types)
         IN  IF absent # <<>> THEN Throws("KeyError", <<absent[1].col>>)
             ELSE IF mismatches # <<>>
             THEN Throws("TypeError", <<Expect(mismatches[1].col, t.data[mismatches[1].col].dtype)>>)
             ELSE Returns(TRUE)

\* the loop ends at the first column the table lacks; the message of the
\* TypeError holds the dict mismatches: column -> dtype found
validate_column_types(h, d, expected_types) ==
    IF d = None
    THEN (IF expected_types = <<>> THEN Returns(TRUE) ELSE Throws("AttributeError", <<>>))
    ELSE LET t == h[d]
             absent == FilterSeq(expected_types,
                                 {e \in Range(expected_types) : ~HasCol(t, e.col)})
             mismatches == Mismatches(t, expected_types)
         IN  IF absent # <<>> THEN Throws("KeyError", <<absent[1].col>>)
             ELSE IF mismatches # <<>>
             THEN Throws("TypeError",
                         [i \in 1..Len(mismatches) |->
                             Expect(mismatches[i].col, t.data[mismatches[i].col].dtype)])
             ELSE Returns(TRUE)

\* df.duplicated(subset): the rows that repeat an earlier row in the columns
\* subset, a missing value being equal to a missing value
Duplicated(t, subset) ==
    {j \in 1..NRows(t) :
        \E i \in 1..(j - 1) :
            \A c \in Range(subset) : t.data[c].vals[i] = t.data[c].vals[j]}

\* duplicated() of an empty table is an empty series, whatever subset names
validate_unique(h, d, columns) ==
    IF d = None THEN Throws("AttributeError", <<>>)
    ELSE LET t == h[d]
             absent == FilterSeq(columns, Range(columns) \ Range(t.cols))
         IN  IF IsEmpty(t) THEN Returns(TRUE)
             ELSE IF absent # <<>> THEN Throws("KeyError", absent)
             ELSE IF Duplicated(t, columns) # {} THEN Throws("ValueError", columns)
             ELSE Returns(TRUE)

\* min_value=None, max_value=None
NoBound == [nobound |-> TRUE]

\* a column a number can be compared with
Comparable(col) == \A i \in 1..Len(col.vals) : IsNum(col.vals[i]) \/ IsNaN(col.vals[i])

\* <= and >= in place of < and >: a value on a bound is refused
ValueRangesOpen(h, d, column, min_value, max_value) ==
    IF d = None THEN Throws("AttributeError", <<>>)
    ELSE LET t == h[d]
             col == t.data[column]
         IN  IF ~HasCol(t, column) THEN Throws("KeyError", <<column>>)
             ELSE IF min_value # NoBound /\ ~Comparable(col) THEN Throws("TypeError", <<>>)
             ELSE IF /\ min_value # NoBound
                     /\ \E i \in 1..Len(col.vals) :
                           IsNum(col.vals[i]) /\ ~NumLess(min_value, col.vals[i])
             THEN Throws("ValueError", <<"below", min_value>>)
             ELSE IF max_value # NoBound /\ ~Comparable(col) THEN Throws("TypeError", <<>>)
             ELSE IF /\ max_value # NoBound
                     /\ \E i \in 1..Len(col.vals) :
                           IsNum(col.vals[i]) /\ ~NumLess(col.vals[i], max_value)
             THEN Throws("ValueError", <<"above", max_value>>)
             ELSE Returns(TRUE)

\* the message of the ValueError holds the bound
validate_value_ranges(h, d, column, min_value, max_value) ==
    IF d = None THEN Throws("AttributeError", <<>>)
    ELSE LET t == h[d]
             col == t.data[column]
         IN  IF ~HasCol(t, column) THEN Throws("KeyError", <<column>>)
             ELSE IF min_value # NoBound /\ ~Comparable(col) THEN Throws("TypeError", <<>>)
             ELSE IF /\ min_value # NoBound
                     /\ \E i \in 1..Len(col.vals) :
                           IsNum(col.vals[i]) /\ NumLess(col.vals[i], min_value)
             THEN Throws("ValueError", <<"below", min_value>>)
             ELSE IF max_value # NoBound /\ ~Comparable(col) THEN Throws("TypeError", <<>>)
             ELSE IF /\ max_value # NoBound
                     /\ \E i \in 1..Len(col.vals) :
                           IsNum(col.vals[i]) /\ NumLess(max_value, col.vals[i])
             THEN Throws("ValueError", <<"above", max_value>>)
             ELSE Returns(TRUE)

\* list(df.columns) != expected_columns in place of the comparison of sets
ValidateSchemaOrdered(h, d, expected_columns) ==
    IF d = None THEN Throws("AttributeError", <<>>)
    ELSE IF h[d].cols # expected_columns
    THEN Throws("ValueError", <<expected_columns, h[d].cols>>)
    ELSE Returns(TRUE)

\* the message of the ValueError holds expected_columns and list(df.columns)
validate_schema(h, d, expected_columns) ==
    IF d = None THEN Throws("AttributeError", <<>>)
    ELSE IF Range(h[d].cols) # Range(expected_columns)
    THEN Throws("ValueError", <<expected_columns, h[d].cols>>)
    ELSE Returns(TRUE)

\* sorted(S) of values of one kind
SortedVals(S) == [i \in 1..Cardinality(S) |-> SortKeys({<<v>> : v \in S})[i][1]]

\* values that < does not compare: a text next to a number or a timestamp
Unordered(S) == \E v, w \in S : (IsStr(v) /\ ~IsStr(w)) \/ (IsTs(v) /\ IsNum(w))

\* the first disallowed value only, in place of sorted(bad)
AllowedValuesFirstBad(h, d, column, allowed) ==
    IF d = None THEN Throws("AttributeError", <<>>)
    ELSE LET t == h[d]
             bad == {v \in Range(t.data[column].vals) : ~IsMissing(v)} \ allowed
         IN  IF ~HasCol(t, column) THEN Throws("KeyError", <<column>>)
             ELSE IF bad # {} THEN Throws("ValueError", <<column, <<SortedVals(bad)[1]>>>>)
             ELSE Returns(TRUE)

\* the message of the ValueError holds the column and sorted(bad)
validate_allowed_values(h, d, column, allowed) ==
    IF d = None THEN Throws("AttributeError", <<>>)
    ELSE LET t == h[d]
             unique_vals == {v \in Range(t.data[column].vals) : ~IsMissing(v)}
             bad == unique_vals \ allowed
         IN  IF ~HasCol(t, column) THEN Throws("KeyError", <<column>>)
             ELSE IF bad # {}
             THEN (IF Unordered(bad) THEN Throws("TypeError", <<>>)
                   ELSE Throws("ValueError", <<column, SortedVals(bad)>>))
             ELSE Returns(TRUE)

\* df[c].nunique(): missing values are not counted
NUnique(col) == Cardinality({v \in Range(col.vals) : ~IsMissing(v)})

\* round(2), halves to the even digit
Round2(v) ==
    LET q == (v.n * 100) \div v.d
        r == (v.n * 100) % v.d
    IN  IF 2 * r < v.d \/ (2 * r = v.d /\ q % 2 = 0) THEN Num(q, 100) ELSE Num(q + 1, 100)

\* (df[c].isna().mean() * 100).round(2): the mean of no row is NaN
MissingPct(col) ==
    IF col.vals = <<>> THEN NaN ELSE Round2(Num(CountMissing(col) * 100, Len(col.vals)))

data_quality_report(h, d) ==
    IF d = None THEN Throws("AttributeError", <<>>)
    ELSE LET t == h[d]
             C == Range(t.cols)
         IN  Returns([rows |-> NRows(t),
                      columns |-> Len(t.cols),
                      missing |-> [c \in C |-> CountMissing(t.data[c])],
                      missing_pct |-> [c \in C |-> MissingPct(t.data[c])],
                      dtypes |-> [c \in C |-> t.data[c].dtype],
                      unique |-> [c \in C |-> NUnique(t.data[c])],
                      duplicates |-> IF IsEmpty(t) THEN 0
                                     ELSE Cardinality(Duplicated(t, t.cols)),
                      constant_columns |->
                          FilterSeq(t.cols, {c \in C : NUnique(t.data[c]) <= 1})])

\* get_dataframe_stat_summary(df) of core/loader.py
get_dataframe_stat_summary(h, d) == Throws("NotImplementedError", <<>>)

(***************************************************************************)
(* interface/gui/controllers/data_controller.py: DataController            *)
(***************************************************************************)
\* the table a reference shows (NoTable for None)
NoTable == [none |-> TRUE]

Deref(h, r) == IF r = None THEN NoTable ELSE h[r]

Live == Deref(heap, df)

UndoTables == [i \in 1..Len(_undo_stack) |-> heap[_undo_stack[i]]]

RedoTables == [i \in 1..Len(_redo_stack) |-> heap[_redo_stack[i]]]

\* what the last call did: the method, the exception it ended in ("ok" for
\* none) with its detail, the reference it returned (ret) or the value it
\* returned (val), and the sizes of the two stacks when it was called
Last(op, res, ret, val) ==
    [op |-> op, exc |-> res.exc, detail |-> res.detail, ret |-> ret, val |-> val,
     nu |-> Len(_undo_stack), nr |-> Len(_redo_stack), had |-> df # None]

\* Objects no reference reaches are collected, and the cells are numbered
\* in the order df, _undo_stack, _redo_stack reach them: a state is the
\* same state whatever addresses its objects have.
Roots(d, u, r) == (IF d = None THEN <<>> ELSE <<d>>) \o u \o r

\* the distinct entries of s, in the order they first occur
RECURSIVE Distinct(_)
Distinct(s) ==
    IF s = <<>> THEN <<>>
    ELSE LET front == Distinct(SubSeq(s, 1, Len(s) - 1))
         IN  IF s[Len(s)] \in Range(front) THEN front ELSE Append(front, s[Len(s)])

\* where x stands in order (None stays None)
Rank(order, x) ==
    IF x = None THEN None ELSE CHOOSE i \in 1..Len(order) : order[i] = x

\* the methods that call self._save_state()
MutatingOps ==
    {"drop_columns", "add_column", "add_derived_column",
     "create_column_from_existing", "drop_rows_by_index",
     "drop_rows_by_condition", "filter_where", "group_and_aggregate",
     "text_filter", "rolling", "resample", "ensure_id"}

\* The calls made since the last load, followed while they are n mutating
\* calls that returned ("ops"), then up to n calls of undo ("undo"), then,
\* after n of them, up to n calls of redo ("redo"): base is the table the
\* load made live, tip the one live after the last mutating call, k the
\* calls of undo or of redo made so far. Any other call ends it until the
\* next load ("new"); a session that starts "off" is not followed at all.
LawOff == [phase |-> "off", n |-> 0, k |-> 0, base |-> NoTable, tip |-> NoTable]

LawNew == [LawOff EXCEPT !.phase = "new"]

Track(l, live) ==
    IF law.phase = "off" THEN LawOff
    ELSE IF l.op = "load" /\ l.exc = "ok"
    THEN [phase |-> "ops", n |-> 0, k |-> 0, base |-> live, tip |-> live]
    ELSE IF l.op \in MutatingOps /\ l.exc = "ok" /\ law.phase = "ops"
    THEN [law EXCEPT !.n = law.n + 1, !.tip = live]
    ELSE IF l.op = "undo" /\ law.phase \in {"ops", "undo"} /\ law.k < law.n
    THEN [law EXCEPT !.phase = "undo", !.k = law.k + 1]
    ELSE IF l.op = "redo" /\ law.phase = "undo" /\ law.k = law.n
    THEN [law EXCEPT !.phase = "redo", !.k = 1]
    ELSE IF l.op = "redo" /\ law.phase = "redo" /\ law.k < law.n
    THEN [law EXCEPT !.k = law.k + 1]
    ELSE LawNew

\* the state after a call: self.df, the stacks, self.path, and what it did
Settle(h, d, u, r, p, l) ==
    LET order == Distinct(Roots(d, u, r))
    IN  /\ heap' = [i \in ObjIds |-> IF i <= Len(order) THEN h[order[i]] ELSE Free]
        /\ df' = Rank(order, d)
        /\ _undo_stack' = [i \in 1..Len(u) |-> Rank(order, u[i])]
        /\ _redo_stack' = [i \in 1..Len(r) |-> Rank(order, r[i])]
        /\ path' = p
        /\ last' = [l EXCEPT !.ret = Rank(order, l.ret)]
        /\ law' = Track(l, Deref(h, d))
        /\ files' = files

\* _save_state without self._redo_stack.clear()
SaveStateKeepsRedo ==
    IF df # None
    THEN LET c == DeepCopy(heap, df)
         IN  [heap |-> c.heap, undo |-> Append(_undo_stack, c.ret), redo |-> _redo_stack]
    ELSE [heap |-> heap, undo |-> _undo_stack, redo |-> _redo_stack]

\* _save_state appending self.df itself, not a copy of it
SaveStateNoCopy ==
    IF df # None
    THEN [heap |-> heap, undo |-> Append(_undo_stack, df), redo |-> <<>>]
    ELSE [heap |-> heap, undo |-> _undo_stack, redo |-> _redo_stack]

\* the heap and the stacks after self._save_state()
_save_state ==
    IF df # None
    THEN LET c == DeepCopy(heap, df)
         IN  [heap |-> c.heap, undo |-> Append(_undo_stack, c.ret), redo |-> <<>>]
    ELSE [heap |-> heap, undo |-> _undo_stack, redo |-> _redo_stack]

\* undo with a bare return where the undo stack is empty
UndoReturnsNothing ==
    IF _undo_stack = <<>>
    THEN Settle(heap, df, _undo_stack, _redo_stack, path,
                Last("undo", Ok(heap, None), None, NoVal))
    ELSE IF df = None
    THEN Settle(heap, df, _undo_stack, _redo_stack, path,
                Last("undo", Raise(heap, "AttributeError", <<>>), None, NoVal))
    ELSE LET c == DeepCopy(heap, df)
             top == _undo_stack[Len(_undo_stack)]
         IN  Settle(c.heap, top, SubSeq(_undo_stack, 1, Len(_undo_stack) - 1),
                    Append(_redo_stack, c.ret), path,
                    Last("undo", Ok(c.heap, top), top, NoVal))

\* self.df.copy(deep=True) with self.df None raises AttributeError before
\* anything is pushed
undo ==
    IF _undo_stack = <<>>
    THEN Settle(heap, df, _undo_stack, _redo_stack, path,
                Last("undo", Ok(heap, df), df, NoVal))
    ELSE IF df = None
    THEN Settle(heap, df, _undo_stack, _redo_stack, path,
                Last("undo", Raise(heap, "AttributeError", <<>>), None, NoVal))
    ELSE LET c == DeepCopy(heap, df)
             top == _undo_stack[Len(_undo_stack)]
         IN  Settle(c.heap, top, SubSeq(_undo_stack, 1, Len(_undo_stack) - 1),
                    Append(_redo_stack, c.ret), path,
                    Last("undo", Ok(c.heap, top), top, NoVal))

redo ==
    IF _redo_stack = <<>>
    THEN Settle(heap, df, _undo_stack, _redo_stack, path,
                Last("redo", Ok(heap, df), df, NoVal))
    ELSE IF df = None
    THEN Settle(heap, df, _undo_stack, _redo_stack, path,
                Last("redo", Raise(heap, "AttributeError", <<>>), None, NoVal))
    ELSE LET c == DeepCopy(heap, df)
             top == _redo_stack[Len(_redo_stack)]
         IN  Settle(c.heap, top, Append(_undo_stack, c.ret),
                    SubSeq(_redo_stack, 1, Len(_redo_stack) - 1), path,
                    Last("redo", Ok(c.heap, top), top, NoVal))

\* load without self._undo_stack.clear()
LoadKeepsUndo(filepath) ==
    LET r == load_csv(heap, files, filepath, ",")
    IN  IF r.exc = "ok"
        THEN Settle(r.heap, r.ret, _undo_stack, <<>>, filepath,
                    Last("load", r, r.ret, NoVal))
        ELSE Settle(heap, df, _undo_stack, _redo_stack, path,
                    Last("load", r, None, NoVal))

\* load with the stacks cleared and the path stored before load_csv is called
LoadClearsFirst(filepath) ==
    LET r == load_csv(heap, files, filepath, ",")
    IN  IF r.exc = "ok"
        THEN Settle(r.heap, r.ret, <<>>, <<>>, filepath, Last("load", r, r.ret, NoVal))
        ELSE Settle(heap, df, <<>>, <<>>, filepath, Last("load", r, None, NoVal))

load(filepath) ==
    LET r == load_csv(heap, files, filepath, ",")
    IN  IF r.exc = "ok"
        THEN Settle(r.heap, r.ret, <<>>, <<>>, filepath, Last("load", r, r.ret, NoVal))
        ELSE Settle(heap, df, _undo_stack, _redo_stack, path,
                    Last("load", r, None, NoVal))

\* a processing method may run: the model stops pushing snapshots at MaxHist
HistRoom == df = None \/ Len(_undo_stack) + Len(_redo_stack) < MaxHist

\* self.df = <the call's result>; return self.df, after self._save_state()
\* gave s; a call that raises leaves self.df as it was
Assign(op, s, r) ==
    IF r.exc = "ok"
    THEN Settle(r.heap, r.ret, s.undo, s.redo, path, Last(op, r, r.ret, NoVal))
    ELSE Settle(r.heap, df, s.undo, s.redo, path, Last(op, r, None, NoVal))

DataController_drop_columns(cols) ==
    /\ HistRoom
    /\ LET s == _save_state
       IN  Assign("drop_columns", s, drop_columns(s.heap, df, cols))

DataController_add_column(name, values) ==
    /\ HistRoom
    /\ LET s == _save_state
       IN  Assign("add_column", s, add_column(s.heap, df, name, values))

DataController_add_derived_column(col1, col2, op, new_name) ==
    /\ HistRoom
    /\ LET s == _save_state
       IN  Assign("add_derived_column", s,
                  math_operation(s.heap, df, col1, col2, op, new_name))

\* add_column_expression (lines 96-99) calls add_column_from_expression, a
\* function core/processor.py does not define: it has no action here.

\* base is not used
DataController_create_column_from_existing(new_name, base, func) ==
    /\ HistRoom
    /\ LET s == _save_state
       IN  Assign("create_column_from_existing", s,
                  create_column_from_existing(s.heap, df, new_name, func))

DataController_drop_rows_by_index(indexes) ==
    /\ HistRoom
    /\ LET s == _save_state
       IN  Assign("drop_rows_by_index", s, drop_rows_by_index(s.heap, df, indexes))

DataController_drop_rows_by_condition(column, value) ==
    /\ HistRoom
    /\ LET s == _save_state
       IN  \E r \in drop_rows_by_condition(s.heap, df, [column |-> column, value |-> value]) :
              Assign("drop_rows_by_condition", s, r)

DataController_filter_where(column, value) ==
    /\ HistRoom
    /\ LET s == _save_state
       IN  \E r \in filter_rows(s.heap, df, [column |-> column, value |-> value]) :
              Assign("filter_where", s, r)

DataController_group_and_aggregate(by, agg) ==
    /\ HistRoom
    /\ LET s == _save_state
       IN  Assign("group_and_aggregate", s, group_and_aggregate(s.heap, df, by, agg))

DataController_text_filter(column, mode, pattern) ==
    /\ HistRoom
    /\ LET s == _save_state
       IN  Assign("text_filter", s, filter_text(s.heap, df, column, mode, pattern))

\* "rolling_{func}_{column}_{window}"
RollingName(func, column, window) ==
    "rolling_" \o func \o "_" \o column \o "_" \o ToString(window)

\* self.df[name] = series writes the live table in place
DataController_rolling(column, window, func) ==
    /\ HistRoom
    /\ LET s == _save_state
           series == rolling_stat(s.heap, df, column, window, func)
       IN  Assign("rolling", s,
                  IF series.exc # "ok" THEN Raise(s.heap, series.exc, series.detail)
                  ELSE InPlace(s.heap, df,
                               SetCol(s.heap[df], RollingName(func, column, window),
                                      series.col)))

DataController_resample(datetime_col, freq, agg_funcs) ==
    /\ HistRoom
    /\ LET s == _save_state
       IN  Assign("resample", s,
                  resample_time_series(s.heap, df, datetime_col, freq, agg_funcs))

\* df.set_index(id_col): the column's values become the row labels
SetIndex(t, id_col) ==
    LET left == DropCols(t, <<id_col>>)
    IN  Table(left.cols, [i \in 1..NRows(t) |-> t.data[id_col].vals[i].n], left.data)

DataController_ensure_id(id_col, start, set_as_index) ==
    /\ HistRoom
    /\ LET s == _save_state
           t == s.heap[df]
           ids == Column("int64", [i \in 1..NRows(t) |-> Whole(start + i - 1)])
           added == IF HasCol(t, id_col) THEN s.heap
                    ELSE [s.heap EXCEPT ![df] = SetCol(t, id_col, ids)]
       IN  Assign("ensure_id", s,
                  IF df = None THEN Raise(s.heap, "AttributeError", <<>>)
                  ELSE IF set_as_index THEN New(added, SetIndex(added[df], id_col))
                  ELSE Ok(added, df))

(***************************************************************************)
(* The calls that read                                                     *)
(***************************************************************************)
\* the most snapshots the two stacks hold together when a reading call is made
MaxRead == 1

ReadRoom == Len(_undo_stack) + Len(_redo_stack) <= MaxRead

\* return <the call's value>: self.df and the stacks are not assigned
Read(op, r) ==
    Settle(heap, df, _undo_stack, _redo_stack, path, Last(op, r, None, r.val))

\* df.head(rows), df.tail(rows): a new table; of rows < 0, all rows but the
\* last (head) or the first (tail) -rows
HeadTail(t, rows, tail) ==
    SelectRows(t, IF tail
                  THEN {i \in 1..NRows(t) : i > (IF rows < 0 THEN -rows ELSE NRows(t) - rows)}
                  ELSE 1..(IF rows < 0 THEN NRows(t) + rows ELSE rows))

\* preview_rows with self.df = self.df.head(rows) before the return
PreviewRowsKeepsHead(rows, tail) ==
    /\ ReadRoom
    /\ IF df = None
       THEN Read("preview_rows", Throws("AttributeError", <<>>))
       ELSE LET r == New(heap, HeadTail(heap[df], rows, tail))
            IN  Settle(r.heap, r.ret, _undo_stack, _redo_stack, path,
                       Last("preview_rows", r, None, heap[df]))

DataController_preview_rows(rows, tail) ==
    /\ ReadRoom
    /\ Read("preview_rows",
            IF df = None THEN Throws("AttributeError", <<>>)
            ELSE Returns(HeadTail(heap[df], rows, tail)))

DataController_stats ==
    /\ ReadRoom
    /\ Read("stats", get_dataframe_stat_summary(heap, df))

DataController_validate_schema(cols) ==
    /\ ReadRoom
    /\ Read("validate_schema", validate_schema(heap, df, cols))

DataController_validate_no_missing(columns) ==
    /\ ReadRoom
    /\ Read("validate_no_missing", validate_no_missing(heap, df, columns))

DataController_validate_value_ranges(column, minv, maxv) ==
    /\ ReadRoom
    /\ Read("validate_value_ranges",
            validate_value_ranges(heap, df, column, minv, maxv))

DataController_validate_unique(columns) ==
    /\ ReadRoom
    /\ Read("validate_unique", validate_unique(heap, df, columns))

DataController_validate_allowed_values(column, allowed) ==
    /\ ReadRoom
    /\ Read("validate_allowed_values",
            validate_allowed_values(heap, df, column, allowed))

DataController_missing_summary ==
    /\ ReadRoom
    /\ Read("missing_summary", check_missing_values(heap, df))

DataController_quality_report ==
    /\ ReadRoom
    /\ Read("quality_report", data_quality_report(heap, df))

(***************************************************************************)
(* The arguments the calls are made with                                   *)
(***************************************************************************)
Chars1 == <<"1">>

Chars1p0 == <<"1", ".", "0">>

\* the second names a column that no table has
DropArgs == {<<"a">>, <<"b", "zz">>}

AddNames == {"c"}

\* no value, and one, two and three values: fewer than, as many as and more
\* than the rows of data.csv
AddValues ==
    {<<>>, <<Str(<<"7">>)>>, <<Str(<<"7">>), Str(<<"8">>)>>,
     <<Str(<<"7">>), Str(<<"8">>), Str(<<"9">>)>>}

\* <<col1, col2, op, new_name>>; "pow" is no operation
DerivedArgs == {<<"a", "b", "mean", "d">>, <<"a", "b", "pow", "d">>}

IndexArgs == {<<0>>}

\* <<column, value>>
WhereArgs == {<<"a", Chars1p0>>}

\* <<by, agg>>
GroupArgs == {<<<<"a">>, <<Agg("b", "mean")>>>>}

\* <<column, mode, pattern>>; "matches" is no mode
TextArgs == {<<"a", "contains", Chars1>>, <<"a", "matches", Chars1>>}

\* <<column, window, func>>
RollingArgs == {<<"a", 2, "mean">>}

\* <<datetime_col, freq, agg_funcs>>
ResampleArgs == {<<"a", "W", <<Agg("b", "sum")>>>>}

(***************************************************************************)
(* The session                                                             *)
(***************************************************************************)
\* DataController()
Fresh ==
    /\ df = None
    /\ heap = [i \in ObjIds |-> Free]
    /\ _undo_stack = <<>>
    /\ _redo_stack = <<>>
    /\ path = NoPath
    /\ files = InitFiles
    /\ last = [op |-> "__init__", exc |-> "ok", detail |-> <<>>, ret |-> None,
               val |-> NoVal, nu |-> 0, nr |-> 0, had |-> FALSE]

Init ==
    /\ Fresh
    /\ law = LawOff

\* the same session with the calls since the last load followed
InitLaw ==
    /\ Fresh
    /\ law = LawNew

Next ==
    \/ \E filepath \in Paths : load(filepath)
    \/ undo
    \/ redo
    \/ \E cols \in DropArgs : DataController_drop_columns(cols)
    \/ \E name \in AddNames, values \in AddValues :
          DataController_add_column(name, values)
    \/ \E a \in DerivedArgs : DataController_add_derived_column(a[1], a[2], a[3], a[4])
    \/ DataController_create_column_from_existing("d", "a", "a_plus_b")
    \/ \E indexes \in IndexArgs : DataController_drop_rows_by_index(indexes)
    \/ \E a \in WhereArgs : DataController_drop_rows_by_condition(a[1], a[2])
    \/ \E a \in WhereArgs : DataController_filter_where(a[1], a[2])
    \/ \E a \in GroupArgs : DataController_group_and_aggregate(a[1], a[2])
    \/ \E a \in TextArgs : DataController_text_filter(a[1], a[2], a[3])
    \/ \E a \in RollingArgs : DataController_rolling(a[1], a[2], a[3])
    \/ \E a \in ResampleArgs : DataController_resample(a[1], a[2], a[3])
    \/ \E set_as_index \in BOOLEAN : DataController_ensure_id("id", 1, set_as_index)

Spec == Init /\ [][Next]_vars

SpecLaw == InitLaw /\ [][Next]_vars

\* <<column, minv, maxv>>; no table has a column zz
RangeArgs ==
    {<<"a", Whole(1), NoBound>>, <<"a", NoBound, Whole(1)>>, <<"zz", NoBound, NoBound>>}

NextRead ==
    \/ Next
    \/ \E rows \in {0, 1}, tail \in BOOLEAN : DataController_preview_rows(rows, tail)
    \/ DataController_stats
    \/ \E cols \in {<<"a", "b">>, <<"a">>} : DataController_validate_schema(cols)
    \/ \E columns \in {<<>>, <<"a">>} : DataController_validate_no_missing(columns)
    \/ \E a \in RangeArgs : DataController_validate_value_ranges(a[1], a[2], a[3])
    \/ \E columns \in {<<"a">>} : DataController_validate_unique(columns)
    \/ \E allowed \in {{Whole(1), Whole(2)}} :
          DataController_validate_allowed_values("a", allowed)
    \/ DataController_missing_summary
    \/ DataController_quality_report

SpecRead == Init /\ [][NextRead]_vars

(***************************************************************************)
(* The functions of core/processor.py and core/validator.py called once on *)
(* a table, as tests/test_processor.py and tests/test_validator.py call    *)
(* them.  last keeps the call: its arguments, the table passed (input) as  *)
(* it was before the call, and what the call handed back.                  *)
(***************************************************************************)
\* pd.DataFrame({"a": [1, 2, 3], "b": [4, 5, 6]})
simple_df ==
    Table(<<"a", "b">>, RangeIndex(3),
          [c \in {"a", "b"} |->
              IF c = "a" THEN Column("int64", <<Whole(1), Whole(2), Whole(3)>>)
              ELSE Column("int64", <<Whole(4), Whole(5), Whole(6)>>)])

\* pd.DataFrame({"x": [1, None, 3], "y": [None, None, None]})
df_with_missing ==
    Table(<<"x", "y">>, RangeIndex(3),
          [c \in {"x", "y"} |->
              IF c = "x" THEN Column("float64", <<Whole(1), NaN, Whole(3)>>)
              ELSE Column("object", <<NaN, NaN, NaN>>)])

\* the table a filter that keeps no row of simple_df leaves
no_rows_df == SelectRows(simple_df, {})

\* pd.DataFrame({"name": ["Ab", "Ba", None]})
names_df ==
    Table(<<"name">>, RangeIndex(3),
          [c \in {"name"} |->
              Column("object", <<Str(<<"A", "b">>), Str(<<"B", "a">>), NaN>>)])

\* pd.DataFrame({"category": ["A", "A", "B", "B"], "value": [10, 20, 30, 40]})
group_df ==
    Table(<<"category", "value">>, RangeIndex(4),
          [c \in {"category", "value"} |->
              IF c = "category"
              THEN Column("object", <<Str(<<"A">>), Str(<<"A">>), Str(<<"B">>), Str(<<"B">>)>>)
              ELSE Column("int64", <<Whole(10), Whole(20), Whole(30), Whole(40)>>)])

\* group_df with gaps: the values of B are all missing, and so is one key
\* pd.DataFrame({"category": ["A", "A", "B", None], "value": [10, None, None, 40]})
gaps_df ==
    Table(<<"category", "value">>, RangeIndex(4),
          [c \in {"category", "value"} |->
              IF c = "category"
              THEN Column("object", <<Str(<<"A">>), Str(<<"A">>), Str(<<"B">>), NaN>>)
              ELSE Column("float64", <<Whole(10), NaN, NaN, Whole(40)>>)])

\* pd.DataFrame({"ts": pd.date_range("1970-01-04", periods=4, freq="D"),
\*               "v1": [1, 2, 3, 4], "v2": [10, 20, 30, 40]}): from a Sunday on
week_df ==
    Table(<<"ts", "v1", "v2">>, RangeIndex(4),
          [c \in {"ts", "v1", "v2"} |->
              CASE c = "ts" -> Column("datetime64[ns]", <<Ts(3, 0), Ts(4, 0), Ts(5, 0), Ts(6, 0)>>)
                [] c = "v1" -> Column("int64", <<Whole(1), Whole(2), Whole(3), Whole(4)>>)
                [] OTHER    -> Column("int64", <<Whole(10), Whole(20), Whole(30), Whole(40)>>)])

\* Thursday 1970-01-01, Saturday the 3rd, Sunday the 4th and, a week with no
\* row later, Monday the 19th, not in this order; one value of v2 is missing
weeks_df ==
    Table(<<"ts", "v1", "v2">>, RangeIndex(4),
          [c \in {"ts", "v1", "v2"} |->
              CASE c = "ts" -> Column("datetime64[ns]", <<Ts(3, 0), Ts(0, 0), Ts(18, 0), Ts(2, 0)>>)
                [] c = "v1" -> Column("int64", <<Whole(1), Whole(2), Whole(3), Whole(4)>>)
                [] OTHER    -> Column("float64", <<NaN, Whole(20), Whole(30), Whole(40)>>)])

Fixtures ==
    {simple_df, df_with_missing, no_rows_df, names_df, group_df, gaps_df, week_df, weeks_df,
     DataCsv}

\* the state a call leaves: the table passed is self.df's object
\* each fixture is passed to one call
Uncalled == last.op = "__init__"

Called(op, args, r, val) ==
    /\ last' = [op |-> op, args |-> args, input |-> heap[df], exc |-> r.exc,
                detail |-> r.detail, ret |-> r.ret, val |-> val,
                nu |-> 0, nr |-> 0, had |-> TRUE]
    /\ heap' = r.heap
    /\ UNCHANGED <<df, _undo_stack, _redo_stack, path, law, files>>

\* the table a call returned
Returned == Deref(heap, last.ret)

\* the table passed, as the call left it
Passed == heap[df]

Call_drop_columns(columns) ==
    /\ Uncalled
    /\ Called("drop_columns", [columns |-> columns], drop_columns(heap, df, columns), NoVal)

\* the last two name columns no fixture has
CallDropArgs == {<<>>, <<"a">>, <<"b", "a">>, <<"b", "zz">>, <<"yy", "b", "zz">>}

Call_math_operation(col1, col2, op, new_name) ==
    /\ Uncalled
    /\ Called("math_operation",
              [col1 |-> col1, col2 |-> col2, op |-> op, new_name |-> new_name],
              math_operation(heap, df, col1, col2, op, new_name), NoVal)

\* <<col1, col2>>; no fixture has a column zz
MathCols == {<<"a", "b">>, <<"b", "a">>, <<"a", "a">>, <<"a", "zz">>, <<"zz", "b">>}

\* the four operations, and two names that are none
MathOps == {"sum", "diff", "prod", "mean", "pow", "SUM"}

Call_filter_rows(column, value) ==
    /\ Uncalled
    /\ \E r \in filter_rows(heap, df, [column |-> column, value |-> value]) :
          Called("filter_rows", [column |-> column, value |-> value], r, NoVal)

Call_drop_rows_by_condition(column, value) ==
    /\ Uncalled
    /\ \E r \in drop_rows_by_condition(heap, df, [column |-> column, value |-> value]) :
          Called("drop_rows_by_condition", [column |-> column, value |-> value], r, NoVal)

\* <<column, value>> of lambda row: str(row[column]) == value
Conditions == {<<"a", <<"1">>>>, <<"a", <<"1", ".", "0">>>>, <<"b", <<"n", "a", "n">>>>}

Call_filter_text(column, mode, pattern) ==
    /\ Uncalled
    /\ Called("filter_text", [column |-> column, mode |-> mode, pattern |-> pattern],
              filter_text(heap, df, column, mode, pattern), NoVal)

TextModes == {"contains", "startswith", "endswith", "invalid"}

Patterns == {<<>>, <<"a">>, <<"A">>, <<"n">>, <<"1">>}

Call_group_and_aggregate(by, agg_funcs) ==
    /\ Uncalled
    /\ Called("group_and_aggregate", [by |-> by, agg_funcs |-> agg_funcs],
              group_and_aggregate(heap, df, by, agg_funcs), NoVal)

\* <<by, agg_funcs>>: the tests' and others; "total" is no function of pandas
CallGroupArgs ==
    {<<<<"category">>, <<AggList("value", <<"mean">>)>>>>,
     <<<<"category">>, <<AggList("value", <<"sum", "max">>)>>>>,
     <<<<"category">>, <<AggList("value", <<"sum", "mean", "max">>)>>>>,
     <<<<"category">>, <<AggList("value", <<"min", "count">>)>>>>,
     <<<<"category">>, <<Agg("value", "sum")>>>>,
     <<<<"category">>, <<Agg("value", "total")>>>>,
     <<<<"b">>, <<AggList("a", <<"sum", "count">>)>>>>,
     <<<<"b", "a">>, <<Agg("a", "sum")>>>>,
     <<<<"x">>, <<Agg("y", "sum"), Agg("x", "max")>>>>,
     <<<<"zz">>, <<Agg("a", "sum")>>>>}

Call_resample_time_series(datetime_col, freq, agg_funcs) ==
    /\ Uncalled
    /\ Called("resample_time_series",
              [datetime_col |-> datetime_col, freq |-> freq, agg_funcs |-> agg_funcs],
              resample_time_series(heap, df, datetime_col, freq, agg_funcs), NoVal)

CallResampleAggs ==
    {<<Agg("v1", "sum")>>, <<Agg("v1", "sum"), Agg("v2", "mean")>>, <<Agg("v2", "sum")>>,
     <<Agg("v1", "count"), Agg("v2", "min")>>, <<Agg("v2", "max")>>}

\* the Series returned is kept in val
Call_rolling_stat(column, window, func) ==
    /\ Uncalled
    /\ LET series == rolling_stat(heap, df, column, window, func)
       IN  Called("rolling_stat", [column |-> column, window |-> window, func |-> func],
                  [exc |-> series.exc, detail |-> series.detail, ret |-> None, heap |-> heap],
                  series.col)

\* more rows than any fixture has
MaxWindow == 5

RollingFuncs == {"mean", "sum", "min", "max", "std", "median"}

\* what the validator returns is kept in val
Call_validate_schema(expected_columns) ==
    /\ Uncalled
    /\ LET v == validate_schema(heap, df, expected_columns)
       IN  Called("validate_schema", [expected_columns |-> expected_columns],
                  [exc |-> v.exc, detail |-> v.detail, ret |-> None, heap |-> heap], v.val)

Schemas ==
    {<<>>, <<"a">>, <<"a", "b">>, <<"b", "a">>, <<"b", "a", "b">>, <<"a", "b", "c">>,
     <<"y", "x">>, <<"A", "b">>}

Call_validate_allowed_values(column, allowed) ==
    /\ Uncalled
    /\ LET v == validate_allowed_values(heap, df, column, allowed)
       IN  Called("validate_allowed_values", [column |-> column, allowed |-> allowed],
                  [exc |-> v.exc, detail |-> v.detail, ret |-> None, heap |-> heap], v.val)

AllowedSets ==
    {{}, {Whole(1)}, {Whole(3), Whole(1)}, {Whole(1), Whole(2), Whole(3), Whole(7)},
     {Whole(10), Whole(40)}, {Whole(20), Whole(30)}}

Call_validate_value_ranges(column, min_value, max_value) ==
    /\ Uncalled
    /\ LET v == validate_value_ranges(heap, df, column, min_value, max_value)
       IN  Called("validate_value_ranges",
                  [column |-> column, min_value |-> min_value, max_value |-> max_value],
                  [exc |-> v.exc, detail |-> v.detail, ret |-> None, heap |-> heap], v.val)

MinValues == {NoBound, Whole(0), Whole(1), Whole(2), Whole(30)}

MaxValues == {NoBound, Whole(0), Whole(2), Whole(3), Whole(35)}

Call_validate_column_types(expected_types) ==
    /\ Uncalled
    /\ LET v == validate_column_types(heap, df, expected_types)
       IN  Called("validate_column_types", [expected_types |-> expected_types],
                  [exc |-> v.exc, detail |-> v.detail, ret |-> None, heap |-> heap], v.val)

ExpectedTypes ==
    {<<>>,
     <<Expect("a", "int64"), Expect("b", "int64")>>,
     <<Expect("a", "int64"), Expect("b", "float64")>>,
     <<Expect("a", "float64"), Expect("b", "object")>>,
     <<Expect("b", "object"), Expect("a", "int64")>>,
     <<Expect("a", "float64")>>,
     <<Expect("a", "float64"), Expect("missing", "int64"), Expect("b", "object")>>,
     <<Expect("missing", "int64")>>,
     <<Expect("x", "float64"), Expect("y", "float64")>>}

InitCalls ==
    /\ df = 1
    /\ \E t \in Fixtures : heap = [i \in ObjIds |-> IF i = 1 THEN t ELSE Free]
    /\ _undo_stack = <<>>
    /\ _redo_stack = <<>>
    /\ path = NoPath
    /\ files = InitFiles
    /\ last = [op |-> "__init__", exc |-> "ok", detail |-> <<>>, ret |-> None,
               val |-> NoVal, nu |-> 0, nr |-> 0, had |-> FALSE]
    /\ law = LawOff

\* core/loader.py: preview_dataframe has no body but the raise
preview_dataframe(h, d, row_number, tail) == Throws("NotImplementedError", <<>>)

PreviewRows == {-1, 0, 1, 2}

Call_preview_dataframe(row_number, tail) ==
    /\ Uncalled
    /\ LET v == preview_dataframe(heap, df, row_number, tail)
       IN  Called("preview_dataframe", [rows |-> row_number, tail |-> tail],
                  [exc |-> v.exc, detail |-> v.detail, ret |-> None, heap |-> heap], v.val)

\* DataController.preview_rows with self.df the table
Call_preview_rows(rows, tail) ==
    /\ Uncalled
    /\ Called("preview_rows", [rows |-> rows, tail |-> tail],
              [exc |-> "ok", detail |-> <<>>, ret |-> None, heap |-> heap],
              HeadTail(heap[df], rows, tail))

NextCalls ==
    \/ \E row_number \in PreviewRows, tail \in BOOLEAN :
          Call_preview_dataframe(row_number, tail)
    \/ \E rows \in PreviewRows, tail \in BOOLEAN : Call_preview_rows(rows, tail)
    \/ \E columns \in CallDropArgs : Call_drop_columns(columns)
    \/ \E c \in Conditions : Call_filter_rows(c[1], c[2])
    \/ \E c \in Conditions : Call_drop_rows_by_condition(c[1], c[2])
    \/ \E column \in {"name", "a", "b", "zz"}, mode \in TextModes, pattern \in Patterns :
          Call_filter_text(column, mode, pattern)
    \/ \E g \in CallGroupArgs : Call_group_and_aggregate(g[1], g[2])
    \/ \E datetime_col \in {"ts", "zz"}, freq \in {"W", "w", "D"}, agg_funcs \in CallResampleAggs :
          Call_resample_time_series(datetime_col, freq, agg_funcs)
    \/ \E column \in {"a", "x", "value", "zz"}, window \in 1..MaxWindow, func \in RollingFuncs :
          Call_rolling_stat(column, window, func)
    \/ \E expected_columns \in Schemas : Call_validate_schema(expected_columns)
    \/ \E column \in {"a", "x", "value", "zz"}, allowed \in AllowedSets :
          Call_validate_allowed_values(column, allowed)
    \/ \E column \in {"a", "x", "value", "zz"}, min_value \in MinValues, max_value \in MaxValues :
          Call_validate_value_ranges(column, min_value, max_value)
    \/ \E expected_types \in ExpectedTypes : Call_validate_column_types(expected_types)
    \/ \E c \in MathCols, op \in MathOps, new_name \in {"result", "a"} :
          Call_math_operation(c[1], c[2], op, new_name)

SpecCalls == InitCalls /\ [][NextCalls]_vars

(***************************************************************************)
(* core/exporter.py and core/loader.py on the files: a table is exported   *)
(* to the files the session starts with, and files are loaded.             *)
(***************************************************************************)
\* group_and_aggregate(group_df, "category", {"value": ["sum", "count"]}):
\* a table with two-level column labels
summary_df == GroupAgg(group_df, <<"category">>, <<AggList("value", <<"sum", "count">>)>>)

FileFixtures ==
    {simple_df, df_with_missing, no_rows_df, names_df, week_df, summary_df}

CsvPaths == {"data.csv", "out"}

NpyPaths == {"data.csv", "out", "out.npy"}

Seps == {",", ";"}

\* <<>> is columns=None; no table has a column zz
ExportColumns == {<<>>, <<"a">>, <<"b", "a">>, <<"a", "zz">>, <<"value">>}

InitFileCalls ==
    /\ df = 1
    /\ \E t \in FileFixtures : heap = [i \in ObjIds |-> IF i = 1 THEN t ELSE Free]
    /\ _undo_stack = <<>>
    /\ _redo_stack = <<>>
    /\ path = NoPath
    /\ files = InitFiles
    /\ last = [op |-> "__init__", exc |-> "ok", detail |-> <<>>, ret |-> None,
               val |-> NoVal, nu |-> 0, nr |-> 0, had |-> FALSE]
    /\ law = LawOff

\* the state a call leaves: the file the call found at its filepath is
\* noted in found
Filed(op, args, exc, detail, val, fs) ==
    /\ last' = [op |-> op, args |-> args, input |-> heap[df],
                found |-> files[args.filepath],
                exc |-> exc, detail |-> detail, ret |-> None, val |-> val,
                nu |-> 0, nr |-> 0, had |-> TRUE]
    /\ files' = fs
    /\ UNCHANGED <<df, heap, _undo_stack, _redo_stack, path, law>>

\* no export has written yet
Unwritten == files = InitFiles

Call_export_to_csv(filepath, sep, columns, overwrite) ==
    /\ Unwritten
    /\ LET r == export_to_csv(heap, df, files, filepath, sep, columns, overwrite)
       IN  Filed("export_to_csv",
                 [filepath |-> filepath, sep |-> sep, columns |-> columns,
                  overwrite |-> overwrite],
                 r.exc, r.detail, NoVal, r.files)

Call_export_to_numpy(filepath, columns, overwrite) ==
    /\ Unwritten
    /\ LET r == export_to_numpy(heap, df, files, filepath, columns, overwrite)
       IN  Filed("export_to_numpy",
                 [filepath |-> filepath, columns |-> columns, overwrite |-> overwrite],
                 r.exc, r.detail, NoVal, r.files)

\* the table load_csv returns is the call's value
Call_load_csv(filepath, sep) ==
    /\ df # None
    /\ LET r == load_csv(heap, files, filepath, sep)
       IN  Filed("load_csv", [filepath |-> filepath, sep |-> sep],
                 r.exc, r.detail, Deref(r.heap, r.ret), files)

\* DataController.export_csv and export_numpy with self.df the table
DataController_export_csv(filepath, overwrite) ==
    /\ Unwritten
    /\ LET r == export_to_csv(heap, df, files, filepath, ",", <<>>, overwrite)
       IN  Filed("export_csv", [filepath |-> filepath, overwrite |-> overwrite],
                 r.exc, r.detail, NoVal, r.files)

DataController_export_numpy(filepath, overwrite) ==
    /\ Unwritten
    /\ LET r == export_to_numpy(heap, df, files, filepath, <<>>, overwrite)
       IN  Filed("export_numpy", [filepath |-> filepath, overwrite |-> overwrite],
                 r.exc, r.detail, NoVal, r.files)

NextFiles ==
    \/ \E filepath \in CsvPaths, sep \in Seps, columns \in ExportColumns,
          overwrite \in BOOLEAN :
          Call_export_to_csv(filepath, sep, columns, overwrite)
    \/ \E filepath \in NpyPaths, columns \in ExportColumns, overwrite \in BOOLEAN :
          Call_export_to_numpy(filepath, columns, overwrite)
    \/ \E filepath \in FilePaths, sep \in Seps : Call_load_csv(filepath, sep)
    \/ \E filepath \in CsvPaths, overwrite \in BOOLEAN :
          DataController_export_csv(filepath, overwrite)
    \/ \E filepath \in NpyPaths, overwrite \in BOOLEAN :
          DataController_export_numpy(filepath, overwrite)

SpecFiles == InitFileCalls /\ [][NextFiles]_vars

(***************************************************************************)
(* Properties of the session controller                                    *)
(***************************************************************************)
\* C1: after a load and n mutating calls that returned, n calls of undo
\* leave the table the load made live as the live table, and n calls of
\* redo after them leave the table that was live after the n-th call.
InverseLaw ==
    /\ (law.phase = "undo" /\ law.k = law.n) => Live = law.base
    /\ (law.phase = "redo" /\ law.k = law.n) => Live = law.tip

\* C2: a mutating call that raises leaves the live table, the undo stack and
\* the redo stack exactly as they were before the call.
FailureAtomicity ==
    [][(last'.op \in MutatingOps /\ last'.exc # "ok")
          => /\ Live' = Live
             /\ UndoTables' = UndoTables
             /\ RedoTables' = RedoTables]_vars

\* C3: a mutating call that returns, made with a table loaded, pushes one
\* snapshot equal to the table live before the call on top of the undo
\* stack, empties the redo stack, and makes the table it returns the live one.
SnapshotPushed ==
    [][(last'.op \in MutatingOps /\ last'.exc = "ok" /\ df # None)
          => /\ UndoTables' = Append(UndoTables, Live)
             /\ RedoTables' = <<>>
             /\ df' = last'.ret]_vars

\* a call that returned was made with a table loaded and a redo stack that
\* held snapshots: it cleared them and pushed one snapshot
SnapshotPushedSeen ==
    /\ last.op \in MutatingOps
    /\ last.exc = "ok"
    /\ last.had
    /\ last.nr > 0
    /\ _redo_stack = <<>>
    /\ Len(_undo_stack) = last.nu + 1
    /\ df # None

\* C4: a load that returns leaves both stacks empty and the file's table
\* live; an undo or a redo made right after it changes nothing.
LoadClearsHistory ==
    [][/\ (last'.op = "load" /\ last'.exc = "ok")
             => /\ _undo_stack' = <<>>
                /\ _redo_stack' = <<>>
                /\ Live' = ReadCsv(path')
       /\ (last.op = "load" /\ last.exc = "ok" /\ last'.op \in {"undo", "redo"})
             => /\ Live' = Live
                /\ _undo_stack' = <<>>
                /\ _redo_stack' = <<>>]_vars

\* a load returned that was made with snapshots on both stacks
LoadClearsHistorySeen ==
    /\ last.op = "load"
    /\ last.exc = "ok"
    /\ last.had
    /\ last.nu > 0
    /\ last.nr > 0
    /\ _undo_stack = <<>>
    /\ _redo_stack = <<>>

\* C5: with an undo stack that is not empty, undo() removes its top entry,
\* makes it the live table and pushes the table live before on the redo
\* stack; redo() mirrors it.
SingleStep ==
    [][/\ (last'.op = "undo" /\ _undo_stack # <<>>)
             => /\ Live' = UndoTables[Len(_undo_stack)]
                /\ UndoTables' = SubSeq(UndoTables, 1, Len(_undo_stack) - 1)
                /\ RedoTables' = Append(RedoTables, Live)
       /\ (last'.op = "redo" /\ _redo_stack # <<>>)
             => /\ Live' = RedoTables[Len(_redo_stack)]
                /\ RedoTables' = SubSeq(RedoTables, 1, Len(_redo_stack) - 1)
                /\ UndoTables' = Append(UndoTables, Live)]_vars

\* C6: undo() with an empty undo stack and redo() with an empty redo stack
\* return the live table and leave the live table and both stacks unchanged.
EmptyStackNoOp ==
    [][(\/ last'.op = "undo" /\ _undo_stack = <<>>
        \/ last'.op = "redo" /\ _redo_stack = <<>>)
          => /\ last'.exc = "ok"
             /\ last'.ret = df'
             /\ Live' = Live
             /\ UndoTables' = UndoTables
             /\ RedoTables' = RedoTables]_vars

\* undo() was called with a table loaded, an empty undo stack and a redo
\* stack that was not empty, and redo() likewise
EmptyStackNoOpSeen ==
    /\ last.op = "undo"
    /\ last.nu = 0
    /\ last.nr > 0
    /\ last.had
    /\ last.ret = df
    /\ Len(_redo_stack) = last.nr

\* the methods that call no self._save_state() and assign no self.df
ReadingOps ==
    {"preview_rows", "stats", "validate_schema", "validate_no_missing",
     "validate_value_ranges", "validate_unique", "validate_allowed_values",
     "missing_summary", "quality_report"}

\* C7: a reading call, whether it returns or raises, leaves the live table,
\* the undo stack and the redo stack with the contents they had.
ReadsChangeNothing ==
    [][last'.op \in ReadingOps
          => /\ Live' = Live
             /\ UndoTables' = UndoTables
             /\ RedoTables' = RedoTables]_vars

\* a reading call other than stats raised, made with a table loaded and a
\* snapshot on a stack
ReadsChangeNothingSeen ==
    /\ last.op \in ReadingOps
    /\ last.exc # "ok"
    /\ last.op # "stats"
    /\ df # None
    /\ Len(_undo_stack) + Len(_redo_stack) > 0

\* C8: no entry of the undo or the redo stack is the object the live table
\* is, no two entries are one object, and a call that writes the live table
\* in place changes no snapshot that was stored before it.
SnapshotIsolation ==
    /\ [](/\ df \notin Range(_undo_stack) \cup Range(_redo_stack)
          /\ Cardinality(Range(_undo_stack \o _redo_stack))
                = Len(_undo_stack) + Len(_redo_stack))
    /\ [][(last'.op \in MutatingOps /\ Len(_undo_stack') >= Len(_undo_stack))
             => \A i \in 1..Len(_undo_stack) : UndoTables'[i] = UndoTables[i]]_vars

\* a call wrote a column into the live table in place while a snapshot of
\* the table before it is on the undo stack
SnapshotIsolationSeen ==
    /\ last.op \in {"add_column", "add_derived_column",
                    "create_column_from_existing", "rolling", "ensure_id"}
    /\ last.exc = "ok"
    /\ last.had
    /\ df # None
    /\ _undo_stack # <<>>
    /\ heap[_undo_stack[Len(_undo_stack)]] # heap[df]

\* C9: for every length of values, add_column returns a table that has the
\* column, as long as the table, holding the values in order and then
\* missing markers; no length gives an error or no table.
AddColumnPads ==
    df # None =>
        \A name \in AddNames, values \in AddValues :
            LET r == add_column(heap, df, name, values)
                n == NRows(heap[df])
            IN  /\ r.exc = "ok"
                /\ r.ret # None
                /\ HasCol(r.heap[r.ret], name)
                /\ r.heap[r.ret].data[name].vals
                      = [i \in 1..n |-> IF i <= Len(values) THEN values[i] ELSE NaN]

\* the table the caller passed is, after the call, as it was before it
Untouched(r) == r.heap[df] = heap[df]

\* C10: every Processor function leaves the table object it was passed with
\* the columns and the values it had before the call.
ProcessorPurity ==
    df # None =>
        /\ \A cols \in DropArgs : Untouched(drop_columns(heap, df, cols))
        /\ \A name \in AddNames, values \in AddValues :
              Untouched(add_column(heap, df, name, values))
        /\ Untouched(create_column_from_existing(heap, df, "d", "a_plus_b"))
        /\ Untouched(apply_transformation(heap, df, "a", "times_ten"))
        /\ \A a \in DerivedArgs :
              Untouched(math_operation(heap, df, a[1], a[2], a[3], a[4]))
        /\ \A indexes \in IndexArgs : Untouched(drop_rows_by_index(heap, df, indexes))
        /\ \A a \in WhereArgs :
              /\ \A r \in drop_rows_by_condition(heap, df, [column |-> a[1], value |-> a[2]]) :
                    Untouched(r)
              /\ \A r \in filter_rows(heap, df, [column |-> a[1], value |-> a[2]]) :
                    Untouched(r)
        /\ Untouched(drop_empty_columns(heap, df))
        /\ \A a \in GroupArgs : Untouched(group_and_aggregate(heap, df, a[1], a[2]))
        /\ \A a \in TextArgs : Untouched(filter_text(heap, df, a[1], a[2], a[3]))
        /\ \A a \in ResampleArgs :
              Untouched(resample_time_series(heap, df, a[1], a[2], a[3]))

\* C27: once a load has returned (the path is set since), self.df holds a
\* table whatever calls follow it, returning or raising, and no undo and no
\* redo raises.
TablePresent ==
    /\ path # NoPath => df # None
    /\ last.op \in {"undo", "redo"} => last.exc = "ok"

\* C28: an undo made with a snapshot on the undo stack takes one entry off
\* the undo stack and puts one on the redo stack, a redo made with a
\* snapshot on the redo stack does the reverse, so no undo and no redo
\* changes the number of snapshots on the two stacks together; that number
\* changes only in a load, which makes it 0, and in a mutating call.
HistoryConserved ==
    [][/\ (last'.op = "undo" /\ _undo_stack # <<>>)
             => /\ Len(_undo_stack') = Len(_undo_stack) - 1
                /\ Len(_redo_stack') = Len(_redo_stack) + 1
       /\ (last'.op = "redo" /\ _redo_stack # <<>>)
             => /\ Len(_redo_stack') = Len(_redo_stack) - 1
                /\ Len(_undo_stack') = Len(_undo_stack) + 1
       /\ (Len(_undo_stack') + Len(_redo_stack') # Len(_undo_stack) + Len(_redo_stack))
             => \/ last'.op \in MutatingOps
                \/ /\ last'.op = "load"
                   /\ _undo_stack' = <<>>
                   /\ _redo_stack' = <<>>]_vars

\* C29: a load that raises, FileNotFoundError for a path with no file or
\* ValueError for a file without rows, leaves the live table, the stored
\* path and the snapshots on the undo and the redo stack as they were.
FailedLoadAtomic ==
    [][(last'.op = "load" /\ last'.exc # "ok")
          => /\ last'.exc \in {"FileNotFoundError", "ValueError"}
             /\ (df' = None) = (df = None)
             /\ Live' = Live
             /\ path' = path
             /\ UndoTables' = UndoTables
             /\ RedoTables' = RedoTables]_vars

\* a load raised that was made with a table live and snapshots on both
\* stacks
FailedLoadAtomicSeen ==
    /\ last.op = "load"
    /\ last.exc = "ValueError"
    /\ df # None
    /\ path # NoPath
    /\ _undo_stack # <<>>
    /\ _redo_stack # <<>>

\* C30: while no load has returned (no path is stored), self.df is None
\* and both stacks are empty; a mutating call made then raises and pushes
\* no snapshot, an undo or a redo returns None and changes nothing, and
\* only a load that returns ends this.
EmptyStateSafe ==
    [][path = NoPath
          => /\ df = None /\ _undo_stack = <<>> /\ _redo_stack = <<>>
             /\ last'.op \in MutatingOps
                   => /\ last'.exc # "ok"
                      /\ df' = None
                      /\ _undo_stack' = <<>>
                      /\ _redo_stack' = <<>>
             /\ last'.op \in {"undo", "redo"}
                   => /\ last'.exc = "ok"
                      /\ last'.ret = None
                      /\ df' = None
                      /\ _undo_stack' = <<>>
                      /\ _redo_stack' = <<>>
             /\ (path' # NoPath \/ df' # None)
                   => last'.op = "load" /\ last'.exc = "ok"]_vars

\* a mutating call raised that was made before any load
EmptyStateSafeSeen ==
    /\ path = NoPath
    /\ last.op \in MutatingOps
    /\ last.exc # "ok"
    /\ df = None
    /\ _undo_stack = <<>>

(***************************************************************************)
(* Properties of the Processor and Validator functions                     *)
(***************************************************************************)
\* every column of t has as many values as t has rows
Aligned(t) ==
    /\ DOMAIN t.data = Range(t.cols)
    /\ \A c \in Range(t.cols) : Len(t.data[c].vals) = NRows(t)

DropColumnsExact ==
    last.op = "drop_columns" =>
        LET t == last.input
            names == Range(last.args.columns)
        IN  IF names \subseteq Range(t.cols)
            THEN /\ last.exc = "ok"
                 /\ Returned.cols = FilterSeq(t.cols, Range(t.cols) \ names)
                 /\ Returned.index = t.index
                 /\ \A c \in Range(Returned.cols) : Returned.data[c] = t.data[c]
                 /\ Aligned(Returned)
            ELSE /\ last.exc = "KeyError"
                 /\ Range(last.detail) = names \ Range(t.cols)
                 /\ Passed = t

\* drop_columns raised for two names that are no columns, next to one that is
DropColumnsExactSeen ==
    /\ last.op = "drop_columns"
    /\ last.exc = "KeyError"
    /\ Len(last.detail) = 2
    /\ \E c \in Range(last.args.columns) : HasCol(last.input, c)
    /\ Passed = last.input

\* x op y for two cells, a missing one giving a missing result
CellOp(op, x, y) ==
    IF IsNaN(x) \/ IsNaN(y) THEN NaN
    ELSE CASE op = "sum"  -> Num(x.n * y.d + y.n * x.d, x.d * y.d)
           [] op = "diff" -> Num(x.n * y.d - y.n * x.d, x.d * y.d)
           [] op = "prod" -> Num(x.n * y.n, x.d * y.d)
           [] OTHER       -> Num(x.n * y.d + y.n * x.d, 2 * x.d * y.d)

\* C13: math_operation on two numeric columns with op sum, diff, prod or
\* mean returns the table with column new_name holding, row by row, the sum,
\* the difference, the product or the half of the sum of the two columns; it
\* raises KeyError when a column is absent and ValueError for any other op,
\* and then the table is as it was.
MathOperationExact ==
    last.op = "math_operation" =>
        LET t == last.input
            a == last.args
        IN  IF ~HasCol(t, a.col1) \/ ~HasCol(t, a.col2)
            THEN last.exc = "KeyError" /\ Passed = t
            ELSE IF a.op \notin {"sum", "diff", "prod", "mean"}
            THEN last.exc = "ValueError" /\ Passed = t
            ELSE (IsNumeric(t.data[a.col1]) /\ IsNumeric(t.data[a.col2]))
                 => /\ last.exc = "ok"
                    /\ HasCol(Returned, a.new_name)
                    /\ Returned.data[a.new_name].vals
                          = [i \in 1..NRows(t) |->
                                CellOp(a.op, t.data[a.col1].vals[i], t.data[a.col2].vals[i])]
                    /\ \A c \in Range(t.cols) \ {a.new_name} :
                          Returned.data[c] = t.data[c]

\* the mean of two columns was taken where it is no whole number (2.5 for 1
\* and 4)
MathOperationExactSeen ==
    /\ last.op = "math_operation"
    /\ last.args.op = "mean"
    /\ last.exc = "ok"
    /\ last.args.col1 # last.args.col2
    /\ \E i \in 1..NRows(Returned) : Returned.data[last.args.new_name].vals[i] = Num(5, 2)

\* the rows of t (by their labels) at which the predicate of the call holds
Holds(t, a) == {t.index[i] : i \in Mask(t, [column |-> a.column, value |-> a.value]).rows}

\* r is t cut down to the rows labelled keep, in t's order
RowsKept(r, t, keep) ==
    /\ r.cols = t.cols
    /\ r.index = FilterSeq(t.index, keep)
    /\ \A c \in Range(t.cols) :
          r.data[c].vals = Select(t.data[c].vals, {i \in 1..NRows(t) : t.index[i] \in keep})

\* C14: on a table that has the predicate's column, filter_rows returns the
\* rows where the predicate holds and drop_rows_by_condition the rows where
\* it does not, both in the table's order: each row is in one result and in
\* one only.
FilterDropComplement ==
    (last.op \in {"filter_rows", "drop_rows_by_condition"} /\ HasCol(last.input, last.args.column))
        => LET t == last.input
               yes == Holds(t, last.args)
               no == Range(t.index) \ yes
           IN  /\ last.exc = "ok"
               /\ RowsKept(Returned, t, IF last.op = "filter_rows" THEN yes ELSE no)
               /\ \A o \in (IF last.op = "filter_rows"
                            THEN drop_rows_by_condition(heap, df, last.args)
                            ELSE filter_rows(heap, df, last.args)) :
                     /\ o.exc = "ok"
                     /\ Range(o.heap[o.ret].index) \cap Range(Returned.index) = {}
                     /\ Range(o.heap[o.ret].index) \cup Range(Returned.index) = Range(t.index)

\* C15: filter_text raises KeyError for a column the table lacks and
\* ValueError for a mode other than contains, startswith and endswith;
\* otherwise it returns, in order, the rows whose value in the column is
\* present and whose text holds, starts with or ends with the pattern: a row
\* whose value is missing is in no result.
FilterTextExact ==
    last.op = "filter_text"
        => LET t == last.input
               a == last.args
               col == t.data[a.column]
           IN  IF ~HasCol(t, a.column)
               THEN last.exc = "KeyError" /\ last.detail = <<a.column>>
               ELSE IF a.mode \notin {"contains", "startswith", "endswith"}
               THEN last.exc = "ValueError"
               ELSE /\ last.exc = "ok"
                    /\ RowsKept(Returned, t,
                                {t.index[i] : i \in
                                    {j \in 1..NRows(t) :
                                        /\ ~IsMissing(col.vals[j])
                                        /\ TextMatch(a.mode, AsTypeStr(col, col.vals[j]),
                                                     a.pattern)}})

\* the arguments ask for functions of {sum, mean, min, max, count}, none
\* twice in a list, of numeric columns the table has that are no key columns
GroupCallValid(t, by, aggs) ==
    /\ by # <<>>
    /\ Range(by) \subseteq Range(t.cols)
    /\ \A i \in 1..Len(aggs) :
          /\ HasCol(t, aggs[i].col)
          /\ aggs[i].col \notin Range(by)
          /\ IsList(aggs[i]) => Cardinality(Range(aggs[i].funcs)) = Len(aggs[i].funcs)
    /\ \A i \in 1..Len(Pairs(aggs)) :
          /\ Pairs(aggs)[i].func \in AggNames
          /\ IsNumeric(t.data[Pairs(aggs)[i].col])

\* C16: group_and_aggregate returns one row for each distinct combination of
\* values of the by columns among the table's rows and no other row; the
\* keys are the leading columns under a plain 0..n-1 index, and after them
\* comes one column per (column, function) pair whose cell in a row is the
\* function over the rows of the table that have the row's key.
GroupAggExact ==
    (last.op = "group_and_aggregate"
        /\ GroupCallValid(last.input, last.args.by, last.args.agg_funcs))
        => LET t == last.input
               by == last.args.by
               ps == Pairs(last.args.agg_funcs)
               r == Returned
               keys == {RowKey(t, by, i) : i \in 1..NRows(t)}
           IN  /\ last.exc = "ok"
               /\ r.index = RangeIndex(Cardinality(keys))
               /\ Len(r.cols) = Len(by) + Len(ps)
               /\ SubSeq(r.cols, 1, Len(by)) = by
               /\ {RowKey(r, by, g) : g \in 1..NRows(r)} = keys
               /\ \A g \in 1..NRows(r), j \in 1..Len(ps) :
                     r.data[r.cols[Len(by) + j]].vals[g]
                         = Aggregate(ps[j].func, t.data[ps[j].col],
                                     {i \in 1..NRows(t) : RowKey(t, by, i) = RowKey(r, by, g)})

\* func over the values vs, none of them missing; of no value, missing
OverPresent(func, vs) ==
    IF vs = <<>> THEN NaN
    ELSE CASE func = "sum"   -> SumVals(vs)
           [] func = "count" -> Whole(Len(vs))
           [] func = "mean"  -> NumDivInt(SumVals(vs), Len(vs))
           [] func = "min"   -> MinVal(vs)
           [] OTHER          -> MaxVal(vs)

\* the rows of t that df.resample puts in the bucket labelled with day
InBucket(t, datetime_col, freq, day) ==
    {i \in 1..NRows(t) :
        LET ts == ToDatetime(t.data[datetime_col].vals[i])
        IN  IsTs(ts) /\ Bucket(freq, ts.day) = day}

\* C17: every cell that group_and_aggregate, resample_time_series and
\* rolling_stat compute with sum, mean, min, max or count is that function
\* over the values of its group, bucket or window that are not missing, and
\* is missing when there is no such value.
AggregationSkipsMissing ==
    /\ (last.op = "group_and_aggregate" /\ last.exc = "ok")
          => LET t == last.input
                 by == last.args.by
                 ps == Pairs(last.args.agg_funcs)
                 r == Returned
             IN  \A g \in 1..NRows(r), j \in 1..Len(ps) :
                    r.data[r.cols[Len(by) + j]].vals[g]
                        = OverPresent(ps[j].func,
                                      Present(t.data[ps[j].col],
                                              {i \in 1..NRows(t) :
                                                  RowKey(t, by, i) = RowKey(r, by, g)}))
    /\ (last.op = "resample_time_series" /\ last.exc = "ok")
          => LET t == last.input
                 a == last.args
                 ps == Pairs(a.agg_funcs)
                 r == Returned
             IN  \A g \in 1..NRows(r), j \in 1..Len(ps) :
                    r.data[r.cols[1 + j]].vals[g]
                        = OverPresent(ps[j].func,
                                      Present(t.data[ps[j].col],
                                              InBucket(t, a.datetime_col, a.freq,
                                                       r.data[a.datetime_col].vals[g].day)))
    /\ (last.op = "rolling_stat" /\ last.exc = "ok" /\ last.args.func \in AggNames)
          => LET col == last.input.data[last.args.column]
                 window == last.args.window
             IN  \A i \in window..Len(col.vals) :
                    last.val.vals[i]
                        = OverPresent(last.args.func,
                                      Present(col, {j \in 1..Len(col.vals) :
                                                       i - window < j /\ j <= i}))

\* C18: rolling_stat raises KeyError for a column the table lacks and
\* ValueError for a function other than mean, sum, min, max and std; for a
\* numeric column it returns one entry per row, in row order: missing before
\* the first full window, and from there on the function over the values of
\* the window that ends at the row (missing entries left out, as in C17).
RollingStatExact ==
    last.op = "rolling_stat"
        => LET t == last.input
               a == last.args
               col == t.data[a.column]
           IN  IF ~HasCol(t, a.column)
               THEN last.exc = "KeyError" /\ last.detail = <<a.column>>
               ELSE IF a.func \notin {"mean", "sum", "min", "max", "std"}
               THEN last.exc = "ValueError"
               ELSE IsNumeric(col)
                    => /\ last.exc = "ok"
                       /\ Len(last.val.vals) = NRows(t)
                       /\ \A i \in 1..NRows(t) :
                             last.val.vals[i]
                                 = IF i < a.window THEN NaN
                                   ELSE LET vs == Present(col, {j \in 1..NRows(t) :
                                                                   i - a.window < j /\ j <= i})
                                        IN  IF a.func = "std" THEN StdVal(vs)
                                            ELSE OverPresent(a.func, vs)

\* 1970-01-04 (day 3) is a Sunday
IsSunday(day) == day % 7 = 3

\* C19: resample_time_series raises KeyError for a datetime column the table
\* lacks.  With a weekly frequency the result has the datetime column as its
\* first column under a plain 0..n-1 index; its values are Sundays at
\* midnight, each once, in order; every row of the table that has a timestamp
\* is counted in the row of the Sunday that starts its Sunday-to-Saturday
\* week and in no other row, on whatever weekday the data starts.
ResampleWeekly ==
    (last.op = "resample_time_series" /\ last.args.freq \in {"W", "w"})
        => LET t == last.input
               a == last.args
               ps == Pairs(a.agg_funcs)
               r == Returned
               label == r.data[a.datetime_col].vals
               week(g) == {i \in 1..NRows(t) :
                              LET ts == t.data[a.datetime_col].vals[i]
                              IN  /\ IsTs(ts)
                                  /\ label[g].day <= ts.day
                                  /\ ts.day < label[g].day + 7}
           IN  IF ~HasCol(t, a.datetime_col)
               THEN last.exc = "KeyError" /\ last.detail = <<a.datetime_col>>
               ELSE (\A j \in 1..Len(ps) :
                        /\ HasCol(t, ps[j].col)
                        /\ ps[j].col # a.datetime_col
                        /\ IsNumeric(t.data[ps[j].col]))
                    => /\ last.exc = "ok"
                       /\ r.cols[1] = a.datetime_col
                       /\ r.index = RangeIndex(NRows(r))
                       /\ \A g \in 1..NRows(r) :
                             /\ IsTs(label[g]) /\ label[g].ns = 0 /\ IsSunday(label[g].day)
                             /\ g > 1 => label[g - 1].day < label[g].day
                             /\ \A j \in 1..Len(ps) :
                                   r.data[r.cols[1 + j]].vals[g]
                                       = Aggregate(ps[j].func, t.data[ps[j].col], week(g))
                       /\ \A i \in 1..NRows(t) :
                             IsTs(t.data[a.datetime_col].vals[i])
                                 => \E g \in 1..NRows(r) : i \in week(g)

\* the data start on a Thursday and run over four weeks, one of them empty
ResampleWeeklySeen ==
    /\ last.op = "resample_time_series"
    /\ last.args.freq = "W"
    /\ last.exc = "ok"
    /\ last.input = weeks_df
    /\ NRows(Returned) = 4
    /\ Returned.data["ts"].vals[1] = Ts(-4, 0)
    /\ Returned.cols = <<"ts", "v1">>
    /\ Returned.data["v1"].vals = <<Whole(6), Whole(1), Whole(0), Whole(3)>>

\* C20: validate_schema returns True when every column of the table is among
\* the expected columns and every expected column is a column of the table,
\* in whatever order and however often the expected ones are given;
\* otherwise it raises ValueError, whose message holds the expected columns
\* and the columns the table has.
SchemaExact ==
    last.op = "validate_schema"
        => LET t == last.input
               expected == last.args.expected_columns
               same == /\ \A i \in 1..Len(t.cols) : \E j \in 1..Len(expected) : expected[j] = t.cols[i]
                       /\ \A j \in 1..Len(expected) : HasCol(t, expected[j])
           IN  IF same THEN last.exc = "ok" /\ last.val = TRUE
               ELSE last.exc = "ValueError" /\ last.detail = <<expected, t.cols>>

\* the expected columns are the table's in another order, one given twice
SchemaExactSeen ==
    /\ last.op = "validate_schema"
    /\ last.input = simple_df
    /\ last.args.expected_columns = <<"b", "a", "b">>
    /\ last.exc = "ok"
    /\ last.val = TRUE

\* C21: validate_allowed_values returns True when every value of the column
\* that is not missing is in the allowed set; otherwise it raises ValueError,
\* whose message lists the values that are not allowed: each of them, once,
\* in rising order, and no other value.
AllowedValuesExact ==
    (last.op = "validate_allowed_values" /\ HasCol(last.input, last.args.column))
        => LET vals == last.input.data[last.args.column].vals
               allowed == last.args.allowed
               listed == last.detail[2]
           IN  IF \A i \in 1..Len(vals) : IsMissing(vals[i]) \/ vals[i] \in allowed
               THEN last.exc = "ok" /\ last.val = TRUE
               ELSE /\ last.exc = "ValueError"
                    /\ \A i \in 1..Len(vals) :
                          (~IsMissing(vals[i]) /\ vals[i] \notin allowed)
                              => \E k \in 1..Len(listed) : listed[k] = vals[i]
                    /\ \A k \in 1..Len(listed) :
                          /\ listed[k] \notin allowed
                          /\ \E i \in 1..Len(vals) : vals[i] = listed[k]
                          /\ ~IsMissing(listed[k])
                          /\ k > 1 => NumLess(listed[k - 1], listed[k])

\* a column with a missing value and two values that are not allowed, the
\* greater one first in the column
AllowedValuesExactSeen ==
    /\ last.op = "validate_allowed_values"
    /\ last.input = gaps_df
    /\ last.args = [column |-> "value", allowed |-> {Whole(1)}]
    /\ last.exc = "ValueError"
    /\ last.detail[2] = <<Whole(10), Whole(40)>>

\* C22: on a numeric column validate_value_ranges returns True when no value
\* that is not missing lies below the minimum given or above the maximum
\* given, a value on a bound being in range; otherwise it raises ValueError,
\* whose message names a bound that some value violates.
ValueRangesExact ==
    (last.op = "validate_value_ranges"
        /\ HasCol(last.input, last.args.column)
        /\ IsNumeric(last.input.data[last.args.column]))
        => LET vals == last.input.data[last.args.column].vals
               min == last.args.min_value
               max == last.args.max_value
               below == min # NoBound /\ \E i \in 1..Len(vals) :
                                            ~IsMissing(vals[i]) /\ NumLess(vals[i], min)
               above == max # NoBound /\ \E i \in 1..Len(vals) :
                                            ~IsMissing(vals[i]) /\ NumLess(max, vals[i])
           IN  IF ~below /\ ~above THEN last.exc = "ok" /\ last.val = TRUE
               ELSE /\ last.exc = "ValueError"
                    /\ \/ below /\ last.detail = <<"below", min>>
                       \/ above /\ last.detail = <<"above", max>>

\* a column with a missing value whose least and greatest values are the bounds
ValueRangesExactSeen ==
    /\ last.op = "validate_value_ranges"
    /\ last.input = df_with_missing
    /\ last.args = [column |-> "x", min_value |-> Whole(1), max_value |-> Whole(3)]
    /\ last.exc = "ok"
    /\ last.val = TRUE

\* C23: validate_column_types raises KeyError when a listed column is not in
\* the table; when all are, it returns True if each has the dtype listed for
\* it and otherwise raises TypeError, whose message carries every listed
\* column that has another dtype, and no other column.
ColumnTypesExact ==
    last.op = "validate_column_types"
        => LET t == last.input
               expected == last.args.expected_types
               carried == {last.detail[k].col : k \in 1..Len(last.detail)}
           IN  IF \E i \in 1..Len(expected) : ~HasCol(t, expected[i].col)
               THEN last.exc = "KeyError"
               ELSE IF \A i \in 1..Len(expected) : t.data[expected[i].col].dtype = expected[i].type
               THEN last.exc = "ok" /\ last.val = TRUE
               ELSE /\ last.exc = "TypeError"
                    /\ carried = {expected[i].col : i \in
                                     {j \in 1..Len(expected) :
                                         t.data[expected[j].col].dtype # expected[j].type}}

\* two of two listed columns have another dtype and both are carried
ColumnTypesExactSeen ==
    /\ last.op = "validate_column_types"
    /\ last.input = simple_df
    /\ last.exc = "TypeError"
    /\ last.detail = <<Expect("a", "int64"), Expect("b", "int64")>>

(***************************************************************************)
(* Properties of the Exporter and the Loader                               *)
(***************************************************************************)
\* the labels of the columns an export of t with the argument columns
\* writes, in order
Exported(t, columns) ==
    LET at == IF columns = <<>> THEN AllColumns(t) ELSE Picked(t, columns)
    IN  [j \in 1..Len(at) |-> t.cols[at[j]]]

\* file holds what an export of t with columns writes: a text with a line
\* of as many fields as columns for every row under the header, or an array
\* of as many rows of as many cells
HoldsExport(file, op, t, columns) ==
    LET k == Len(Exported(t, columns))
    IN  IF op = "export_to_csv"
        THEN /\ file.kind = "text"
             /\ Len(file.lines) > NRows(t)
             /\ \A i \in 1..Len(file.lines) : Len(file.lines[i]) = k
             /\ "levels" \notin DOMAIN t
                   => /\ Len(file.lines) = NRows(t) + 1
                      /\ file.lines[1]
                            = [j \in 1..k |-> NameField(Exported(t, columns)[j])]
        ELSE /\ file.kind = "npy"
             /\ Len(file.array) = NRows(t)
             /\ \A i \in 1..NRows(t) : Len(file.array[i]) = k

\* C24: an export of a table with no rows ends in the empty-table error
\* (ValueError); of a table with rows, in FileExistsError when the
\* destination exists and overwrite is false, in KeyError when columns names
\* an absent column (and the destination is free or overwrite is true); and
\* otherwise it returns and the destination holds the table's columns, or
\* the subset asked for, also when it held a file before.  An export that
\* raises leaves the files as they were.
ExportContract ==
    last.op \in {"export_to_csv", "export_to_numpy"}
        => LET t == last.input
               a == last.args
               exists == last.found.kind # "none"
               absent == \E i \in 1..Len(a.columns) : ~HasLabel(t, a.columns[i])
           IN  /\ NRows(t) = 0 => last.exc = "ValueError"
               /\ (NRows(t) > 0 /\ exists /\ ~a.overwrite)
                     => last.exc = "FileExistsError"
               /\ (NRows(t) > 0 /\ absent /\ (~exists \/ a.overwrite))
                     => last.exc = "KeyError"
               /\ (NRows(t) > 0 /\ ~absent /\ (~exists \/ a.overwrite))
                     => /\ last.exc = "ok"
                        /\ HoldsExport(files[a.filepath], last.op, t, a.columns)
               /\ last.exc # "ok" => files = InitFiles

\* C25: when export_to_csv has written a table with rows, or a subset of
\* its columns, a load_csv of the written file with the same separator
\* returns a table with the exported column names in their order and as
\* many rows and columns as were exported.
RoundTrip ==
    [][(/\ last.op = "export_to_csv"
        /\ last.exc = "ok"
        /\ last'.op = "load_csv"
        /\ last'.args.filepath = last.args.filepath
        /\ last'.args.sep = last.args.sep)
          => /\ last'.exc = "ok"
             /\ last'.val.cols = Exported(last.input, last.args.columns)
             /\ NRows(last'.val) = NRows(last.input)
             /\ Len(last'.val.cols) = Len(Exported(last.input, last.args.columns))]_vars

\* C26: a preview of rows > 0 rows returns the table's first rows rows,
\* or with tail its last, all of them when the table has no more, and
\* leaves the table as it was; a preview of rows <= 0 rows ends in the
\* invalid-argument error (ValueError).
PreviewContract ==
    last.op \in {"preview_dataframe", "preview_rows"}
        => LET t == last.input
               n == IF last.args.rows < NRows(t) THEN last.args.rows ELSE NRows(t)
           IN  /\ heap[df] = t
               /\ last.args.rows <= 0 => last.exc = "ValueError"
               /\ last.args.rows > 0
                     => /\ last.exc = "ok"
                        /\ last.val.cols = t.cols
                        /\ NRows(last.val) = n
                        /\ \A c \in Range(t.cols), i \in 1..n :
                              LET at == IF last.args.tail THEN NRows(t) - n + i ELSE i
                              IN  /\ last.val.data[c].vals[i] = t.data[c].vals[at]
                                  /\ last.val.index[i] = t.index[at]

====
